---- MODULE Spec2Model ----
(***************************************************************************)
(* GStorm: design-storm hyetograph engine (utils/tr55, src/unnamed/part_003) *)
(*                                                                         *)
(* Numbers.  The program computes with JavaScript numbers.  The model      *)
(* computes with exact rationals <<n, d>> (d > 0, lowest terms), so every  *)
(* tolerance of the code (1e-6, 1e-3, 1e-9, 1%) is a real comparison and   *)
(* no rounding of IEEE doubles is modelled.  <<0, 0>> is NaN and           *)
(* <<-1, 0>> is -Infinity.  A comparison against a sum with a tolerance,   *)
(* a >= b - tol, is written on the difference, b - a <= tol, which is the  *)
(* same comparison of reals and keeps the integers of the model small.     *)
(* One operation is rounded as binary floating point rounds it (to the     *)
(* nearest, ties to even): the conversion of a metric depth to inches,     *)
(* whose round trip with the multiplication by 25.4 is not the identity.   *)
(* The model's floating-point numbers have MantissaBits significant bits   *)
(* where the program's doubles have 53.                                    *)
(***************************************************************************)
EXTENDS Integers, Sequences, FiniteSets, TLC

VARIABLES
    pc,                   \* where the run is
    xq, xPoints, yPoints, \* linearInterpolate's arguments
    yOut,                 \* linearInterpolate's result
    csv,                  \* the three reference texts, by category
    allDistributionsRaw,  \* parseAndProcessStormCsv's curves, all categories
    stormDistributions,   \* the curve store
    inputs,               \* calculateHyetograph's argument
    result,               \* calculateHyetograph's result
    csvText,              \* parseNoaaCsv's argument
    noaaData,             \* parseNoaaCsv's result
    event,                \* the request the proxy handler is called with
    upstream,             \* what axios.get has settled with
    response,             \* the proxy handler's response
    dat,                  \* the lines of the .dat export
    appInputs,            \* the App's inputs state
    noaaState,            \* the App's NOAA state
    fetches,              \* the fetchNoaaData calls, returned or not
    call                  \* the event of the interface handled last

engineVars == <<xq, xPoints, yPoints, yOut, csv, allDistributionsRaw,
                stormDistributions, inputs, result>>

noaaVars == <<csvText, noaaData>>

proxyVars == <<event, upstream, response>>

uiVars == <<dat, appInputs, noaaState, fetches, call>>

vars == <<pc, engineVars, noaaVars, proxyVars, uiVars>>

(***************************************************************************)
(* Exact rational arithmetic standing for JavaScript's number type         *)
(***************************************************************************)
Abs(i) == IF i < 0 THEN -i ELSE i

RECURSIVE GCD(_, _)
GCD(a, b) == IF b = 0 THEN a ELSE GCD(b, a % b)

Norm(n, d) == LET g == GCD(Abs(n), d) IN <<n \div g, d \div g>>

R(n) == <<n, 1>>
Q(n, d) == Norm(n, d)

NaN == <<0, 0>>
NegInfinity == <<-1, 0>>

isNaN(a) == a = NaN
isFinite(a) == a[2] > 0

\* a/b < c/d for b, d > 0, by integer parts and then the reciprocals of the
\* remainders, so that no product is formed.
RECURSIVE FracLt(_, _, _, _)
FracLt(a, b, c, d) ==
    LET qa == a \div b
        qc == c \div d
        ra == a % b
        rc == c % d
    IN  IF qa # qc THEN qa < qc
        ELSE IF rc = 0 THEN FALSE
        ELSE IF ra = 0 THEN TRUE
        ELSE FracLt(d, rc, b, ra)

\* JavaScript's a < b: false when either side is NaN.
RLt(a, b) ==
    IF isNaN(a) \/ isNaN(b) THEN FALSE
    ELSE IF a = NegInfinity THEN b # NegInfinity
    ELSE IF b = NegInfinity THEN FALSE
    ELSE FracLt(a[1], a[2], b[1], b[2])

RLe(a, b) == IF isNaN(a) \/ isNaN(b) THEN FALSE ELSE a = b \/ RLt(a, b)
RGt(a, b) == RLt(b, a)
RGe(a, b) == RLe(b, a)

RNeg(a) == <<-a[1], a[2]>>

RAdd(a, b) ==
    LET g == GCD(a[2], b[2])
        l == (a[2] \div g) * b[2]
    IN  Norm(a[1] * (l \div a[2]) + b[1] * (l \div b[2]), l)

RSub(a, b) == RAdd(a, RNeg(b))

RMul(a, b) ==
    LET g1 == GCD(Abs(a[1]), b[2])
        g2 == GCD(Abs(b[1]), a[2])
    IN  IF a[1] = 0 \/ b[1] = 0 THEN R(0)
        ELSE <<(a[1] \div g1) * (b[1] \div g2), (a[2] \div g2) * (b[2] \div g1)>>

\* JavaScript's a / b for finite a: 0/0 is NaN (x/0 for x # 0, an infinity, is
\* folded into NaN: the callers only ask whether the quotient is finite).
RDiv(a, b) ==
    IF b[1] = 0 THEN NaN
    ELSE IF b[1] > 0 THEN RMul(a, <<b[2], b[1]>>)
    ELSE RMul(a, <<-b[2], -b[1]>>)

RAbs(a) == <<Abs(a[1]), a[2]>>
RMin(a, b) == IF RLt(b, a) THEN b ELSE a
RMax(a, b) == IF RLt(a, b) THEN b ELSE a

\* Math.ceil of a finite number, as an integer.
Ceil(a) == -((-a[1]) \div a[2])

Tol6 == Q(1, 1000000)
Tol9 == Q(1, 1000000000)

(***************************************************************************)
(* linearInterpolate (part_003:446-477).  Arrays are 1-based here: the     *)
(* code's index i is the model's i + 1.                                    *)
(***************************************************************************)
\* Mutant of lastIndex: the last index taken one short.
lastIndex_off(xs) == IF Len(xs) > 1 THEN Len(xs) - 1 ELSE 1

\* const lastIndex = xPoints.length - 1
lastIndex(xs) == Len(xs)

\* Mutant of ClampLow: strict comparison.
ClampLow_strict(x, xs) == RLt(x, xs[1])

ClampLow(x, xs) == RLe(x, xs[1])

ClampHigh(x, xs) == RGe(x, xs[lastIndex(xs)])

\* let i = 1; while (i < xPoints.length && xPoints[i] < x) i++;
RECURSIVE FindInterval(_, _, _)
FindInterval(x, xs, i) ==
    IF i <= Len(xs) /\ RLt(xs[i], x) THEN FindInterval(x, xs, i + 1) ELSE i

\* Mutant of NearPoint: the tolerance of the division guard, 1e-9, used instead.
NearPoint_tight(x, p) == RLt(RAbs(RSub(x, p)), Tol9)

\* Math.abs(x - p) < 1e-6
NearPoint(x, p) == RLt(RAbs(RSub(x, p)), Tol6)

Lerp(x, x0, x1, y0, y1) ==
    IF RLt(RAbs(RSub(x1, x0)), Tol9) THEN y0
    ELSE RAdd(y0, RMul(RSub(y1, y0), RDiv(RSub(x, x0), RSub(x1, x0))))

linearInterpolate(x, xs, ys) ==
    IF ClampLow(x, xs) THEN ys[1]
    ELSE IF ClampHigh(x, xs) THEN ys[lastIndex(xs)]
    ELSE LET i == FindInterval(x, xs, 2)
         IN  IF NearPoint(x, xs[i]) THEN ys[i]
             ELSE IF NearPoint(x, xs[i - 1]) THEN ys[i - 1]
             ELSE Lerp(x, xs[i - 1], xs[i], ys[i - 1], ys[i])

(***************************************************************************)
(* Reference texts.  A text is its header row and its data rows, each      *)
(* split at the commas.  A header cell <<name, d>> stands for the string   *)
(* "name - dHR" (d = 0: a header that does not end in " - <digits>HR").    *)
(* A data cell is the sequence of its ':'-separated parts, each part the   *)
(* number it reads as, or NaN for text that is no number; <<>> is the      *)
(* empty cell, and also the cell a short row does not have.                *)
(***************************************************************************)
Categories == {"SCS", "NRCS", "Huff"}

DEFAULT_DURATION_HR == 24

Trunc(a) == IF a[1] >= 0 THEN a[1] \div a[2] ELSE -((-a[1]) \div a[2])

parseInt(part) == IF isNaN(part) THEN NaN ELSE R(Trunc(part))

parseFloat(cell) == IF Len(cell) = 0 THEN NaN ELSE cell[1]

Cell(values, index) == IF index \in 1..Len(values) THEN values[index] ELSE <<>>

\* columnIndices[h]: the last column holding header h (0: undefined)
columnIndex(header, h) ==
    LET at == {i \in 1..Len(header) : header[i] = h}
    IN  IF at = {} THEN 0 ELSE CHOOSE i \in at : \A j \in at : j <= i

durationsToParse(category) ==
    IF category = "SCS" THEN {6, 12, 24} ELSE {DEFAULT_DURATION_HR}

validSubType(category, subType) ==
    CASE category = "SCS" -> subType \in {"Type I", "Type Ia", "Type II", "Type III"}
      [] category = "Huff" -> subType \in {"Huff Type I", "Huff Type II",
                                           "Huff Type III", "Huff Type IV"}
      [] OTHER -> TRUE

\* The time of a row in minutes; NaN when the row is skipped for its time
\* cell (empty, fewer than two parts, or a part that is no number).
parseTime(timeStr) ==
    IF Len(timeStr) < 2 THEN NaN
    ELSE LET hours == parseInt(timeStr[1])
             minutes == parseInt(timeStr[2])
             seconds == IF Len(timeStr) > 2 THEN parseInt(timeStr[3]) ELSE R(0)
         IN  IF isNaN(hours) \/ isNaN(minutes) \/ isNaN(seconds) THEN NaN
             ELSE RAdd(RAdd(RMul(hours, R(60)), minutes), RDiv(seconds, R(60)))

\* part_003:158-164: a row whose time is below the previous one is skipped
\* for SCS only.
skipsDecreasing(category) == category = "SCS"

\* The row loop (part_003:132-183): the <<time, intensity>> samples of one
\* column, from row i on, previousTimeMinutes being prev.
RECURSIVE rawSamples(_, _, _, _, _, _)
rawSamples(lines, category, timeIndex, intensityIndex, i, prev) ==
    IF i > Len(lines) THEN <<>>
    ELSE LET t == parseTime(Cell(lines[i], timeIndex))
         IN  IF isNaN(t)
                THEN rawSamples(lines, category, timeIndex, intensityIndex, i + 1, prev)
             ELSE IF RLt(t, prev) /\ skipsDecreasing(category)
                THEN rawSamples(lines, category, timeIndex, intensityIndex, i + 1, prev)
             ELSE <<[time |-> t,
                     intensity |-> parseFloat(Cell(lines[i], intensityIndex))]>>
                  \o rawSamples(lines, category, timeIndex, intensityIndex, i + 1, t)

Tol3 == Q(1, 1000)

\* Mutant of depthStep: the intensity is taken as the depth of the interval,
\* whatever its length.
depthStep_rate(intensity, timeStepMinutes) ==
    IF isNaN(intensity) THEN R(0) ELSE intensity

\* part_003:240-246: the depth of one interval, an intensity that is no
\* number counting as 0
depthStep(intensity, timeStepMinutes) ==
    LET intensityForStep == IF isNaN(intensity) THEN R(0) ELSE intensity
    IN  RMul(intensityForStep, RDiv(timeStepMinutes, R(60)))

\* The interval loop (part_003:221-271) from sample j on: acc holds
\* totalDepthInches, final_times and final_cumulative_depths.
RECURSIVE cumulate(_, _, _, _)
cumulate(samples, stormDurationMinutes, j, acc) ==
    IF j > Len(samples) THEN acc
    ELSE
      LET currentTime == samples[j].time
          nextTime == IF j + 1 <= Len(samples) THEN samples[j + 1].time
                      ELSE stormDurationMinutes
          timeStepMinutes == RSub(nextTime, currentTime)
          depthStepInches == depthStep(samples[j].intensity, timeStepMinutes)
          total == RAdd(acc.total, depthStepInches)
          n == Len(acc.times)
          lastAddedTime == acc.times[n]
      IN  IF RLe(timeStepMinutes, Tol6)
             THEN cumulate(samples, stormDurationMinutes, j + 1, acc)
          ELSE IF RLt(RAbs(RSub(nextTime, lastAddedTime)), Tol6)
             THEN cumulate(samples, stormDurationMinutes, j + 1,
                           [total |-> total, times |-> acc.times,
                            depths |-> [acc.depths EXCEPT ![n] = total]])
          ELSE IF RGt(nextTime, lastAddedTime)
             THEN cumulate(samples, stormDurationMinutes, j + 1,
                           [total |-> total, times |-> Append(acc.times, nextTime),
                            depths |-> Append(acc.depths, total)])
          ELSE cumulate(samples, stormDurationMinutes, j + 1,
                        [acc EXCEPT !.total = total])

\* part_003:205-296: one column's samples to its cumulative-fraction curve.
processRaw(samples, stormDurationMinutes) ==
    IF Len(samples) = 0 THEN [time_minutes |-> <<>>, cumulative_fraction |-> <<>>]
    ELSE
      LET acc == cumulate(samples, stormDurationMinutes, 1,
                          [total |-> R(0), times |-> <<R(0)>>, depths |-> <<R(0)>>])
      IN  [time_minutes |-> acc.times,
           cumulative_fraction |->
               IF RGt(acc.total, Tol6)
               THEN [k \in 1..Len(acc.depths) |->
                        RMin(R(1), RMax(R(0), RDiv(acc.depths[k], acc.total)))]
               ELSE [k \in 1..Len(acc.depths) |-> R(0)]]

\* The curve keys a text yields (part_003:77-123): <<category, subType, d>>
\* stands for "category-subType-dHR".
csvKeys(text, category) ==
    IF Len(text.lines) < 1 THEN {}
    ELSE {<<category, text.header[i][1], d>> :
            <<i, d>> \in {c \in (1..Len(text.header)) \X durationsToParse(category) :
                /\ columnIndex(text.header, <<"Minutes", c[2]>>) # 0
                /\ c[1] # columnIndex(text.header, <<"Minutes", c[2]>>)
                /\ text.header[c[1]][2] = c[2]
                /\ validSubType(category, text.header[c[1]][1])}}

parseAndProcessStormCsv(text, category) ==
    [key \in csvKeys(text, category) |->
        LET timeIndex == columnIndex(text.header, <<"Minutes", key[3]>>)
            \* a later column of the same name replaces an earlier one
            intensityIndex ==
                CHOOSE i \in 1..Len(text.header) :
                    /\ i # timeIndex /\ text.header[i] = <<key[2], key[3]>>
                    /\ \A j \in 1..Len(text.header) :
                          (j # timeIndex /\ text.header[j] = text.header[i]) => j <= i
        IN  processRaw(rawSamples(text.lines, category, timeIndex, intensityIndex,
                                  1, NegInfinity),
                       R(key[3] * 60))]

(***************************************************************************)
(* preprocessDistributions (part_003:314-417)                              *)
(***************************************************************************)
RemoveAt(seq, k) == [i \in 1..(Len(seq) - 1) |-> IF i < k THEN seq[i] ELSE seq[i + 1]]

Front(seq) == SubSeq(seq, 1, Len(seq) - 1)

\* 1. Ensure Start Point (0, 0)
ensureStart(c) ==
    IF c.time_minutes[1] # R(0) \/ c.cumulative_fraction[1] # R(0)
    THEN LET d == IF c.time_minutes[1] # R(0)
                  THEN [time_minutes |-> <<R(0)>> \o c.time_minutes,
                        cumulative_fraction |-> <<R(0)>> \o c.cumulative_fraction]
                  ELSE [c EXCEPT !.cumulative_fraction[1] = R(0)]
         IN  IF Len(d.time_minutes) > 1 /\ d.time_minutes[2] = R(0)
             THEN [time_minutes |-> RemoveAt(d.time_minutes, 2),
                   cumulative_fraction |-> RemoveAt(d.cumulative_fraction, 2)]
             ELSE d
    ELSE c

\* Remove points strictly after the expected end time (tolerance 1e-3)
RECURSIVE trimEnd(_, _)
trimEnd(c, expectedEndTime) ==
    IF /\ Len(c.time_minutes) > 0
       /\ RGt(RSub(c.time_minutes[Len(c.time_minutes)], expectedEndTime), Tol3)
    THEN trimEnd([time_minutes |-> Front(c.time_minutes),
                  cumulative_fraction |-> Front(c.cumulative_fraction)],
                 expectedEndTime)
    ELSE c

\* Math.abs(cumulative_fraction[currentLastIdx] - 1.0) > 1e-3
endFractionOff(frac) == RGt(RAbs(RSub(frac, R(1))), Tol3)

\* 2. Ensure End Point (totalDurationMinutes, 1.0)
ensureEnd(c0, expectedEndTime) ==
    LET c == trimEnd(c0, expectedEndTime)
        n == Len(c.time_minutes)
    IN  IF n = 0
        THEN [time_minutes |-> <<R(0), expectedEndTime>>,
              cumulative_fraction |-> <<R(0), R(1)>>]
        ELSE IF RGt(RAbs(RSub(c.time_minutes[n], expectedEndTime)), Tol3)
        THEN [time_minutes |-> Append(c.time_minutes, expectedEndTime),
              cumulative_fraction |-> Append(c.cumulative_fraction, R(1))]
        ELSE IF endFractionOff(c.cumulative_fraction[n])
        THEN [c EXCEPT !.cumulative_fraction[n] = R(1)]
        ELSE c

\* currentFrac >= prevFrac - 1e-6
fractionKept(currentFrac, prevFrac) ==
    prevFrac = NegInfinity \/ RLe(RSub(prevFrac, currentFrac), Tol6)

\* 3. Ensure Monotonicity, from point k on; acc holds finalTimes, finalFracs,
\* prevTime and prevFrac.
RECURSIVE monotone(_, _, _)
monotone(c, k, acc) ==
    IF k > Len(c.time_minutes) THEN acc
    ELSE
      LET currentTime == c.time_minutes[k]
          currentFrac == c.cumulative_fraction[k]
          n == Len(acc.finalTimes)
      IN  IF RGe(currentTime, acc.prevTime) /\ fractionKept(currentFrac, acc.prevFrac)
          THEN IF currentTime = acc.prevTime /\ n > 0
               THEN monotone(c, k + 1,
                        [acc EXCEPT !.finalFracs[n] = RMax(acc.finalFracs[n], currentFrac)])
               ELSE monotone(c, k + 1,
                        [finalTimes |-> Append(acc.finalTimes, currentTime),
                         finalFracs |-> Append(acc.finalFracs, currentFrac),
                         prevTime |-> currentTime, prevFrac |-> currentFrac])
          ELSE monotone(c, k + 1, acc)

\* part_003:388-413: the pass over a whole point list
monotonePass(c) ==
    LET m == monotone(c, 1, [finalTimes |-> <<>>, finalFracs |-> <<>>,
                             prevTime |-> NegInfinity, prevFrac |-> NegInfinity])
    IN  [time_minutes |-> m.finalTimes, cumulative_fraction |-> m.finalFracs]

preprocessCurve(sourceData, totalDurationMinutes) ==
    IF Len(sourceData.time_minutes) = 0
    THEN [time_minutes |-> <<>>, cumulative_fraction |-> <<>>]
    ELSE monotonePass(ensureEnd(ensureStart(sourceData), totalDurationMinutes))

preprocessDistributions(sourceDistributions) ==
    [key \in {k \in DOMAIN sourceDistributions :
                Len(sourceDistributions[k].time_minutes)
                    = Len(sourceDistributions[k].cumulative_fraction)}
        |-> preprocessCurve(sourceDistributions[key], R(key[3] * 60))]

(***************************************************************************)
(* calculateHyetograph (part_003:481-614)                                  *)
(***************************************************************************)
INCH_TO_MM == Q(254, 10)

createEmptyResult ==
    [labels |-> <<>>, intensityData |-> <<>>, peakIntensity |-> R(0),
     totalDepthActual |-> R(0), intensityUnit |-> "N/A", depthUnit |-> "N/A",
     detailedData |-> <<>>]

Floor(a) == a[1] \div a[2]

\* Math.round: the nearest integer, halves upward
Round(a) == Floor(RAdd(a, Q(1, 2)))

\* formatTimeLabel (part_003:630-650): <<h, m>> is "h:mm", <<m>> is "<m>m"
formatTimeLabel(timeMinutes, totalDurationMinutes) ==
    IF RGt(totalDurationMinutes, RAdd(R(120), Tol6))
    THEN LET hours == Floor(RDiv(timeMinutes, R(60)))
             mins == Round(RAdd(RSub(timeMinutes, R(60 * hours)), Tol6))
         IN  IF mins >= 60 THEN <<hours + 1, 0>> ELSE <<hours, mins>>
    ELSE <<Round(RAdd(timeMinutes, Tol6))>>

\* part_003:535-537: remove a duplicate end time
dropDuplicateEnd(t) ==
    IF Len(t) > 1 /\ RLt(RAbs(RSub(t[Len(t)], t[Len(t) - 1])), Tol6)
    THEN Front(t) ELSE t

\* part_003:539-541: force the last time point to the duration
forceEnd(t, totalDurationMinutesCalc) ==
    IF Len(t) > 0 /\ RGt(RAbs(RSub(t[Len(t)], totalDurationMinutesCalc)), Tol6)
    THEN [t EXCEPT ![Len(t)] = totalDurationMinutesCalc] ELSE t

\* Math.ceil(totalDurationMinutesCalc / timeStepMinutes)
numSteps(totalDurationMinutesCalc, timeStepMinutes) ==
    Ceil(RDiv(totalDurationMinutesCalc, timeStepMinutes))

\* part_003:530-541; targetTimes[i] of the code is targetTimes(..)[i + 1]
targetTimes(totalDurationMinutesCalc, timeStepMinutes) ==
    LET n == numSteps(totalDurationMinutesCalc, timeStepMinutes)
        all == [i \in 1..(n + 1) |->
                   RMin(RMul(R(i - 1), timeStepMinutes), totalDurationMinutesCalc)]
    IN  forceEnd(dropDuplicateEnd(all), totalDurationMinutesCalc)

\* Significant bits of the model's floating-point numbers.
MantissaBits == 8

RECURSIVE Pow2(_)
Pow2(n) == IF n = 0 THEN 1 ELSE 2 * Pow2(n - 1)

\* the nearest integer, ties to the even one
RoundHalfEven(a) ==
    LET f == Floor(a)
        r == RSub(a, R(f))
    IN  IF RGt(r, Q(1, 2)) \/ (r = Q(1, 2) /\ f % 2 = 1) THEN f + 1 ELSE f

\* a * scale for a > 0, rounded to MantissaBits significant bits
RECURSIVE flScaled(_, _)
flScaled(a, scale) ==
    IF RGe(a, R(Pow2(MantissaBits))) THEN flScaled(RDiv(a, R(2)), RMul(scale, R(2)))
    ELSE IF RLt(a, R(Pow2(MantissaBits - 1)))
        THEN flScaled(RMul(a, R(2)), RDiv(scale, R(2)))
    ELSE RMul(R(RoundHalfEven(a)), scale)

\* The floating-point number nearest to a.
fl(a) ==
    IF ~isFinite(a) \/ a[1] = 0 THEN a
    ELSE IF a[1] < 0 THEN RNeg(flScaled(RNeg(a), R(1)))
    ELSE flScaled(a, R(1))

\* Mutant of toInches: the quotient cut to whole inches.
toInches_whole(totalDepth, isMetric) ==
    IF isMetric THEN R(Trunc(RDiv(totalDepth, INCH_TO_MM))) ELSE totalDepth

\* totalDepth / (isMetric ? INCH_TO_MM : 1)
toInches(totalDepth, isMetric) ==
    IF isMetric THEN fl(RDiv(totalDepth, INCH_TO_MM)) ELSE totalDepth

\* Mutant of stepIntensity: the step's length taken in minutes.
stepIntensity_perMinute(depthStepInches, stepDurationMinutes) ==
    RDiv(depthStepInches, stepDurationMinutes)

\* depthStepInches / (stepDurationMinutes / 60.0)
stepIntensity(depthStepInches, stepDurationMinutes) ==
    RDiv(depthStepInches, RDiv(stepDurationMinutes, R(60)))

\* Mutant of nextPeak: the latest intensity is taken as the peak.
nextPeak_latest(finalIntensity, peakIntensity) == finalIntensity

\* if (finalIntensity > peakIntensity) peakIntensity = finalIntensity
nextPeak(finalIntensity, peakIntensity) ==
    IF RGt(finalIntensity, peakIntensity) THEN finalIntensity ELSE peakIntensity

\* The step loop (part_003:555-590) from boundary i on (the code's i is
\* i - 1); acc holds peakIntensity, calculatedTotalDepthInches, the steps,
\* the intensities and the labels.
RECURSIVE stepLoop(_, _, _, _, _, _)
stepLoop(times, depths, conversionFactor, total, i, acc) ==
    IF i > Len(depths) THEN acc
    ELSE
      LET startTimeMinutes == times[i - 1]
          endTimeMinutes == times[i]
          stepDurationMinutes == RSub(endTimeMinutes, startTimeMinutes)
          depthStepInches == RSub(depths[i], depths[i - 1])
          finalIntensity ==
              RMul(stepIntensity(depthStepInches, stepDurationMinutes), conversionFactor)
      IN  IF RLe(stepDurationMinutes, Tol6)
          THEN stepLoop(times, depths, conversionFactor, total, i + 1, acc)
          ELSE stepLoop(times, depths, conversionFactor, total, i + 1,
                 [peakIntensity |-> nextPeak(finalIntensity, acc.peakIntensity),
                  calculatedTotalDepthInches |->
                      RAdd(acc.calculatedTotalDepthInches, depthStepInches),
                  detailedData |-> Append(acc.detailedData,
                      [timeStart |-> startTimeMinutes,
                       timeEnd |-> endTimeMinutes,
                       intensity |-> finalIntensity,
                       depthStep |-> RMul(depthStepInches, conversionFactor),
                       cumulativeDepth |-> RMul(depths[i], conversionFactor)]),
                  intensityData |-> Append(acc.intensityData, finalIntensity),
                  labels |-> Append(acc.labels,
                                    formatTimeLabel(startTimeMinutes, total))])

\* Mutant of invalidNumbers: a zero depth passes.
invalidNumbers_zeroDepthOk(totalDepth, timeStepMinutes) ==
    \/ isNaN(totalDepth) \/ isNaN(timeStepMinutes)
    \/ RLt(totalDepth, R(0)) \/ RLe(timeStepMinutes, R(0))

\* isNaN(totalDepth) || isNaN(timeStepMinutes) || totalDepth <= 0 || timeStepMinutes <= 0
invalidNumbers(totalDepth, timeStepMinutes) ==
    \/ isNaN(totalDepth) \/ isNaN(timeStepMinutes)
    \/ RLe(totalDepth, R(0)) \/ RLe(timeStepMinutes, R(0))

\* Mutant of lookupDistribution: a missing duration falls back to the
\* 24-hour curve of the same category and sub-type.
lookupDistribution_base24(store, combinedKey) ==
    IF combinedKey \in DOMAIN store THEN <<store[combinedKey]>>
    ELSE IF <<combinedKey[1], combinedKey[2], DEFAULT_DURATION_HR>> \in DOMAIN store
    THEN <<store[<<combinedKey[1], combinedKey[2], DEFAULT_DURATION_HR>>]>>
    ELSE <<>>

\* stormDistributions[combinedKey]: <<curve>>, or <<>> for undefined
lookupDistribution(store, combinedKey) ==
    IF combinedKey \in DOMAIN store THEN <<store[combinedKey]>> ELSE <<>>

\* Mutant of targetCumulativeDepth: the time is scaled to a curve of 24
\* hours before the curve is read.
targetCumulativeDepth_base24(currentTimeMinutes, totalDurationMinutes, curve, totalDepthInches) ==
    LET equivalentBaseTime ==
            RMax(R(0), RMin(RMul(RDiv(currentTimeMinutes, totalDurationMinutes),
                                 R(1440)), R(1440)))
    IN  RMul(linearInterpolate(equivalentBaseTime, curve.time_minutes,
                               curve.cumulative_fraction),
             totalDepthInches)

\* part_003:545-550, for one target time
targetCumulativeDepth(currentTimeMinutes, totalDurationMinutes, curve, totalDepthInches) ==
    RMul(linearInterpolate(currentTimeMinutes, curve.time_minutes,
                           curve.cumulative_fraction),
         totalDepthInches)

calculateHyetograph(store, inp) ==
    LET combinedKey == <<inp.stormCategory, inp.stormSubType, inp.durationInput>>
        totalDepth == inp.totalDepthInput
        timeStepMinutes == inp.timeStepMinutes
    IN  IF invalidNumbers(totalDepth, timeStepMinutes) THEN createEmptyResult
        ELSE IF lookupDistribution(store, combinedKey) = <<>> THEN createEmptyResult
        ELSE
          LET curve == lookupDistribution(store, combinedKey)[1]
              baseTimes == curve.time_minutes
              baseCumulativeFractions == curve.cumulative_fraction
              isMetric == inp.depthUnit = "metric"
              conversionFactor == IF isMetric THEN INCH_TO_MM ELSE R(1)
              totalDepthInches == toInches(totalDepth, isMetric)
              totalDurationMinutesCalc == R(inp.durationInput * 60)
              times == targetTimes(totalDurationMinutesCalc, timeStepMinutes)
              targetCumulativeDepthsInches ==
                  [i \in 1..Len(times) |->
                      IF i = 1 THEN R(0)
                      ELSE targetCumulativeDepth(times[i], totalDurationMinutesCalc,
                                                 curve, totalDepthInches)]
              out == stepLoop(times, targetCumulativeDepthsInches, conversionFactor,
                              totalDurationMinutesCalc, 2,
                              [peakIntensity |-> R(0),
                               calculatedTotalDepthInches |-> R(0),
                               detailedData |-> <<>>, intensityData |-> <<>>,
                               labels |-> <<>>])
          IN  IF Len(baseTimes) < 2 THEN createEmptyResult
              ELSE [labels |-> IF Len(times) > 0
                               THEN Append(out.labels,
                                       formatTimeLabel(totalDurationMinutesCalc,
                                                       totalDurationMinutesCalc))
                               ELSE out.labels,
                    intensityData |-> out.intensityData,
                    peakIntensity |-> out.peakIntensity,
                    totalDepthActual |->
                        RMul(out.calculatedTotalDepthInches, conversionFactor),
                    intensityUnit |-> IF isMetric THEN "mm/hr" ELSE "in/hr",
                    depthUnit |-> IF isMetric THEN "mm" ELSE "in",
                    detailedData |-> out.detailedData]

(***************************************************************************)
(* Inputs of the interpolator: every table its contract accepts            *)
(* (non-decreasing xs, ys of the same length, length >= 1) up to MaxLen    *)
(* points, probed on, between, next to and outside its points.             *)
(***************************************************************************)
MaxLen == 3

XVals == {R(0), R(1), R(2)}
YVals == {R(0), R(1), R(3)}
Probes == XVals \cup {R(-1), R(3), Q(1, 2), Q(3, 2),
                      Q(1999999, 2000000), Q(2000001, 2000000),
                      Q(999999, 1000000)}

NonDecreasing(s) == \A i \in 1..(Len(s) - 1) : RLe(s[i], s[i + 1])

Tables == UNION {
    {t \in [xs : [1..n -> XVals], ys : [1..n -> YVals]] : NonDecreasing(t.xs)}
    : n \in 1..MaxLen}

Idle == [k \in {} |-> k]

NoInputs ==
    [totalDepthInput |-> NaN, durationInput |-> 0, stormCategory |-> "SCS",
     stormSubType |-> "", timeStepMinutes |-> NaN, depthUnit |-> "us"]

EmptyText == [header |-> <<>>, lines |-> <<>>]

InterpIdle == xq = NaN /\ xPoints = <<>> /\ yPoints = <<>> /\ yOut = NaN

\* parseNoaaCsv's null, and a grid
Null == [isNull |-> TRUE, grid |-> <<>>]

Grid(parsedData) == [isNull |-> FALSE, grid |-> parsedData]

NoaaIdle == csvText = <<>> /\ noaaData = Null

\* A value that is no string: a missing query parameter, a response body
\* that axios has parsed into an object.
Undefined == <<"undefined">>

NoEvent ==
    [httpMethod |-> "", queryStringParameters |-> [lat |-> Undefined, lon |-> Undefined]]

\* No response: the handler has not returned.
NoResponse == [statusCode |-> 0, contentType |-> "", error |-> "", body |-> <<>>]

NoError == [code |-> "", response |-> 0, request |-> FALSE]

\* axios.get has not been called, or has not settled.
NoUpstream == [resolved |-> FALSE, status |-> 0, data |-> <<>>, error |-> NoError]

ProxyIdle == event = NoEvent /\ upstream = NoUpstream /\ response = NoResponse

\* part_001:14-21; the time step is the sequence of its characters
defaultInputs ==
    [totalDepth |-> <<"1", ".", "0">>, duration |-> R(24), stormCategory |-> "SCS",
     stormSubType |-> "Type II", timeStep |-> <<"6">>, depthUnits |-> "us"]

\* part_001:24-31; null is <<>> and a value v is <<v>>
initialNoaaState ==
    [latitude |-> <<>>, longitude |-> <<>>, isLoading |-> FALSE, error |-> <<>>,
     data |-> <<>>, statusMessage |-> <<"Click map to select location.">>]

NoCall == [op |-> "", field |-> "", value |-> <<>>]

UiIdle ==
    /\ dat = <<>>
    /\ appInputs = defaultInputs
    /\ noaaState = initialNoaaState
    /\ fetches = {}
    /\ call = NoCall

StormIdle ==
    /\ csv = [c \in Categories |-> EmptyText]
    /\ allDistributionsRaw = Idle
    /\ stormDistributions = Idle
    /\ inputs = NoInputs
    /\ result = createEmptyResult

EngineIdle == InterpIdle /\ StormIdle

InitInterp ==
    /\ pc = "interp"
    /\ xq \in Probes
    /\ \E t \in Tables : xPoints = t.xs /\ yPoints = t.ys
    /\ yOut = NaN
    /\ StormIdle
    /\ NoaaIdle
    /\ ProxyIdle
    /\ UiIdle

Interpolate ==
    /\ pc = "interp"
    /\ yOut' = linearInterpolate(xq, xPoints, yPoints)
    /\ pc' = "interpolated"
    /\ UNCHANGED <<xq, xPoints, yPoints, csv, allDistributionsRaw,
                   stormDistributions, inputs, result, noaaVars, proxyVars, uiVars>>

NextInterp == Interpolate

SpecInterp == InitInterp /\ [][NextInterp]_vars

(***************************************************************************)
(* Reference texts of the model: a header, and up to MaxRows data rows.    *)
(***************************************************************************)
MaxRows == 2

Headers == {
    << <<"Minutes", 6>>, <<"Type II", 6>> >>,
    << <<"Minutes", 24>>, <<"Type II", 24>> >>,
    << <<"Minutes", 24>>, <<"Huff Type I", 24>> >>,
    << <<"Time", 0>>, <<"Type II", 6>> >>,
    << <<"Minutes", 6>>, <<"Type I", 6>>, <<"Type II", 6>> >> }

\* "0:00,1"  "6:00,1"  "9:00,"  "x:00,1"  "1:59:60,-1"
Rows == {
    << <<R(0), R(0)>>, <<R(1)>> >>,
    << <<R(6), R(0)>>, <<R(1)>> >>,
    << <<R(9), R(0)>>, <<>> >>,
    << <<NaN, R(0)>>, <<R(1)>> >>,
    << <<R(1), R(59), R(60)>>, <<R(-1)>> >> }

\* "0:00,1000"  "6:00,1"  "9:00,": all but 1/2001 of the rain has fallen at
\* the end of the six hours.
NearlyFullText ==
    [header |-> << <<"Minutes", 6>>, <<"Type II", 6>> >>,
     lines |-> << << <<R(0), R(0)>>, <<R(1000)>> >>,
                  << <<R(6), R(0)>>, <<R(1)>> >>,
                  << <<R(9), R(0)>>, <<>> >> >>]

\* "0:00,1"  "2:00,1000"  "4:00,1": the heaviest rain in the middle third.
PeakedText ==
    [header |-> << <<"Minutes", 6>>, <<"Type II", 6>> >>,
     lines |-> << << <<R(0), R(0)>>, <<R(1)>> >>,
                  << <<R(2), R(0)>>, <<R(1000)>> >>,
                  << <<R(4), R(0)>>, <<R(1)>> >> >>]

\* "0:00,2000000"  "2:00,-1"  "4:00,1": the cumulative depth falls by one
\* part in two million over the middle third and recovers.
DippingText ==
    [header |-> << <<"Minutes", 6>>, <<"Type II", 6>> >>,
     lines |-> << << <<R(0), R(0)>>, <<R(2000000)>> >>,
                  << <<R(2), R(0)>>, <<R(-1)>> >>,
                  << <<R(4), R(0)>>, <<R(1)>> >> >>]

Texts(maxRows) ==
    UNION {[header : Headers, lines : [1..n -> Rows]] : n \in 0..maxRows}
        \cup {NearlyFullText, PeakedText, DippingText}

\* The module's top level (part_003:422-437), in two steps.
parseAll(texts) ==
    [key \in UNION {csvKeys(texts[c], c) : c \in Categories}
        |-> parseAndProcessStormCsv(texts[key[1]], key[1])[key]]

\* One category's text is drawn, the other two have no data rows.
InitStorm(maxRows) ==
    /\ pc = "load"
    /\ \E c \in Categories, t \in Texts(maxRows) :
          csv = [k \in Categories |-> IF k = c THEN t ELSE EmptyText]
    /\ allDistributionsRaw = Idle
    /\ stormDistributions = Idle
    /\ inputs = NoInputs
    /\ result = createEmptyResult
    /\ InterpIdle
    /\ NoaaIdle
    /\ ProxyIdle
    /\ UiIdle

ParseCsvs ==
    /\ pc = "load"
    /\ allDistributionsRaw' = parseAll(csv)
    /\ pc' = "parsed"
    /\ UNCHANGED <<xq, xPoints, yPoints, yOut, csv, stormDistributions, inputs,
                   result, noaaVars, proxyVars, uiVars>>

Preprocess ==
    /\ pc = "parsed"
    /\ stormDistributions' = preprocessDistributions(allDistributionsRaw)
    /\ pc' = "ready"
    /\ UNCHANGED <<xq, xPoints, yPoints, yOut, csv, allDistributionsRaw, inputs,
                   result, noaaVars, proxyVars, uiVars>>

NextBuild == ParseCsvs \/ Preprocess

\* The builder alone, on texts of one more row than the engine is run on.
SpecBuild == InitStorm(MaxRows + 1) /\ [][NextBuild]_vars

(***************************************************************************)
(* The monotonicity pass alone, on point lists of up to MaxLen points:     *)
(* the list is held in allDistributionsRaw, the kept points are written    *)
(* to stormDistributions.                                                  *)
(***************************************************************************)
PassKey == <<"SCS", "Type II", 6>>

PassTimes == {R(0), R(60), R(120)}

\* 999999/2000000 is below 1/2 by less than 1e-6
PassFractions == {R(0), Q(999999, 2000000), Q(1, 2), R(1)}

PassLists ==
    UNION {[time_minutes : [1..n -> PassTimes],
            cumulative_fraction : [1..n -> PassFractions]] : n \in 0..MaxLen}

InitPass ==
    /\ pc = "pass"
    /\ csv = [c \in Categories |-> EmptyText]
    /\ \E c \in PassLists : allDistributionsRaw = [k \in {PassKey} |-> c]
    /\ stormDistributions = Idle
    /\ inputs = NoInputs
    /\ result = createEmptyResult
    /\ InterpIdle
    /\ NoaaIdle
    /\ ProxyIdle
    /\ UiIdle

MonotonePass ==
    /\ pc = "pass"
    /\ stormDistributions' = [k \in {PassKey} |-> monotonePass(allDistributionsRaw[k])]
    /\ pc' = "passed"
    /\ UNCHANGED <<xq, xPoints, yPoints, yOut, csv, allDistributionsRaw, inputs,
                   result, noaaVars, proxyVars, uiVars>>

NextPass == MonotonePass

SpecPass == InitPass /\ [][NextPass]_vars

(***************************************************************************)
(* Requests of the model: keys the texts can and cannot yield, valid and   *)
(* invalid depths and time steps (among them steps that do not divide the  *)
(* duration), both depth units.  A time step 5e-7 short of the 6-hour      *)
(* duration (359.9999995) is requested, in inches, of the stores whose     *)
(* curves are the straight line from (0, 0) to (duration, 1): on other     *)
(* curves its quotients leave the 32-bit integers the model computes with. *)
(* For the same reason the depths of 1 and 3 inches together with their    *)
(* conversions to millimetres are requested of the stores whose fractions  *)
(* have small denominators.                                                *)
(***************************************************************************)
RequestKeys == {
    <<"SCS", "Type II", 6>>, <<"SCS", "Type II", 12>>, <<"SCS", "Type II", 24>>,
    <<"SCS", "Type I", 6>>, <<"NRCS", "Type II", 24>>, <<"NRCS", "Type II", 6>>,
    <<"Huff", "Huff Type I", 24>>, <<"Huff", "Huff Type I", 12>> }

\* D * 25.4, the depth in millimetres of D inches
toMillimetres(depth) == fl(RMul(depth, INCH_TO_MM))

\* Numbers the validation refuses, as a depth or as a time step.
BadNumbers == {NaN, R(0), R(-1)}

\* 25.4 mm is one inch exactly; other metric depths are asked below.
Depths(unit) == IF unit = "us" THEN {R(1)} ELSE {Q(127, 5)}

\* Depths in inches that are also asked in millimetres, as D * 25.4.
RoundTripDepths == {R(1), R(3)}

TimeSteps == {R(120), R(240), R(1440)}

\* <<depth, time step>>: every valid pair, a bad depth with a valid step, a
\* valid depth with a bad step, and both bad.
Numbers(unit) ==
    (Depths(unit) \X TimeSteps)
        \cup (BadNumbers \X {R(120)})
        \cup ({Q(127, 5)} \X BadNumbers)
        \cup {<<NaN, NaN>>, <<R(0), R(-1)>>}

NearDurationSteps == {Q(719999999, 2000000)}

StraightLines(store) ==
    \A k \in DOMAIN store :
        \/ Len(store[k].time_minutes) = 0
        \/ /\ store[k].time_minutes = <<R(0), R(k[3] * 60)>>
           /\ store[k].cumulative_fraction = <<R(0), R(1)>>

\* Every fraction of the store is a multiple of 1/n for an n up to 8.
CoarseFractions(store) ==
    \A k \in DOMAIN store :
        \A i \in 1..Len(store[k].cumulative_fraction) :
            store[k].cumulative_fraction[i][2] <= 8

Request(k, d, ts, u) ==
    [totalDepthInput |-> d, durationInput |-> k[3], stormCategory |-> k[1],
     stormSubType |-> k[2], timeStepMinutes |-> ts, depthUnit |-> u]

Requests(store) ==
    UNION {{Request(k, n[1], n[2], u) : k \in RequestKeys, n \in Numbers(u)} :
           u \in {"us", "metric"}}
    \cup (IF CoarseFractions(store)
          THEN {Request(k, d, ts, "us") :
                   k \in RequestKeys, d \in RoundTripDepths, ts \in TimeSteps}
               \cup {Request(k, toMillimetres(d), ts, "metric") :
                   k \in RequestKeys, d \in RoundTripDepths, ts \in TimeSteps}
          ELSE {})
    \cup (IF StraightLines(store)
          THEN {Request(<<k[1], k[2], 6>>, R(1), ts, "us") :
                   k \in RequestKeys, ts \in NearDurationSteps}
          ELSE {})

Calculate ==
    /\ pc = "ready"
    /\ \E inp \in Requests(stormDistributions) :
          /\ inputs' = inp
          /\ result' = calculateHyetograph(stormDistributions, inp)
    /\ pc' = "calculated"
    /\ UNCHANGED <<xq, xPoints, yPoints, yOut, csv, allDistributionsRaw,
                   stormDistributions, noaaVars, proxyVars, uiVars>>

Next == ParseCsvs \/ Preprocess \/ Calculate

Spec == InitStorm(MaxRows) /\ [][Next]_vars

(***************************************************************************)
(* Strings.  A string is the sequence of its characters, each a string of  *)
(* one character, and the string methods the parser and the proxy call     *)
(* are operators on such sequences.                                        *)
(***************************************************************************)
\* what the regular expression \s and trim() take for white space
Whitespace == {" ", "\t", "\r", "\n"}

RECURSIVE trimLeft(_)
trimLeft(s) ==
    IF s # <<>> /\ Head(s) \in Whitespace THEN trimLeft(Tail(s)) ELSE s

RECURSIVE trimRight(_)
trimRight(s) ==
    IF s # <<>> /\ s[Len(s)] \in Whitespace
    THEN trimRight(SubSeq(s, 1, Len(s) - 1)) ELSE s

trim(s) == trimRight(trimLeft(s))

\* s.indexOf(c) + 1 from position i on, 0 when c is not there
RECURSIVE indexOf(_, _, _)
indexOf(s, c, i) ==
    IF i > Len(s) THEN 0 ELSE IF s[i] = c THEN i ELSE indexOf(s, c, i + 1)

\* s.split(sep), sep one character
RECURSIVE split(_, _)
split(s, sep) ==
    LET i == indexOf(s, sep, 1)
    IN  IF i = 0 THEN <<s>>
        ELSE <<SubSeq(s, 1, i - 1)>> \o split(SubSeq(s, i + 1, Len(s)), sep)

\* s.replace(/\s+/g, r)
RECURSIVE replaceSpaceRuns(_, _)
replaceSpaceRuns(s, r) ==
    IF s = <<>> THEN <<>>
    ELSE IF Head(s) \in Whitespace THEN <<r>> \o replaceSpaceRuns(trimLeft(s), r)
    ELSE <<Head(s)>> \o replaceSpaceRuns(Tail(s), r)

UpperCase ==
    <<"A", "B", "C", "D", "E", "F", "G", "H", "I", "J", "K", "L", "M", "N",
      "O", "P", "Q", "R", "S", "T", "U", "V", "W", "X", "Y", "Z">>

LowerCase ==
    <<"a", "b", "c", "d", "e", "f", "g", "h", "i", "j", "k", "l", "m", "n",
      "o", "p", "q", "r", "s", "t", "u", "v", "w", "x", "y", "z">>

toLower(c) ==
    IF \E i \in 1..Len(UpperCase) : UpperCase[i] = c
    THEN LowerCase[CHOOSE i \in 1..Len(UpperCase) : UpperCase[i] = c]
    ELSE c

toLowerCase(s) == [i \in 1..Len(s) |-> toLower(s[i])]

startsWith(s, p) == Len(s) >= Len(p) /\ SubSeq(s, 1, Len(p)) = p

includes(s, p) == \E i \in 0..(Len(s) - Len(p)) : SubSeq(s, i + 1, i + Len(p)) = p

\* s.replace(/^"|"$/g, '')
stripQuotes(s) ==
    LET t == IF s # <<>> /\ Head(s) = "\"" THEN Tail(s) ELSE s
    IN  IF t # <<>> /\ t[Len(t)] = "\"" THEN SubSeq(t, 1, Len(t) - 1) ELSE t

\* s.replace(/:$/, '')
stripColon(s) ==
    IF s # <<>> /\ s[Len(s)] = ":" THEN SubSeq(s, 1, Len(s) - 1) ELSE s

Digits == <<"0", "1", "2", "3", "4", "5", "6", "7", "8", "9">>

isDigit(c) == \E i \in 1..Len(Digits) : Digits[i] = c

digitValue(c) == (CHOOSE i \in 1..Len(Digits) : Digits[i] = c) - 1

RECURSIVE leadingDigits(_)
leadingDigits(s) ==
    IF s # <<>> /\ isDigit(Head(s)) THEN <<Head(s)>> \o leadingDigits(Tail(s))
    ELSE <<>>

RECURSIVE digitsValue(_, _)
digitsValue(ds, acc) ==
    IF ds = <<>> THEN acc
    ELSE digitsValue(Tail(ds), 10 * acc + digitValue(Head(ds)))

RECURSIVE Pow10(_)
Pow10(n) == IF n = 0 THEN 1 ELSE 10 * Pow10(n - 1)

PosInfinity == <<1, 0>>

signed(s) == s # <<>> /\ Head(s) \in {"+", "-"}

\* The string read as a decimal integer (parseInt(s, 10)): white space, a
\* sign, digits; what follows the digits is ignored.
parseIntString(s) ==
    LET t == trimLeft(s)
        u == IF signed(t) THEN Tail(t) ELSE t
        ds == leadingDigits(u)
    IN  IF ds = <<>> THEN NaN
        ELSE IF Head(t) = "-" THEN R(-digitsValue(ds, 0))
        ELSE R(digitsValue(ds, 0))

\* The string read as a decimal number (parseFloat): white space, a sign,
\* then Infinity or digits with an optional fraction and an optional
\* exponent; what follows the number is ignored.
parseFloatString(s) ==
    LET t == trimLeft(s)
        negative == t # <<>> /\ Head(t) = "-"
        u == IF signed(t) THEN Tail(t) ELSE t
        int == leadingDigits(u)
        afterInt == SubSeq(u, Len(int) + 1, Len(u))
        hasPoint == afterInt # <<>> /\ Head(afterInt) = "."
        frac == IF hasPoint THEN leadingDigits(Tail(afterInt)) ELSE <<>>
        afterFrac == IF hasPoint
                     THEN SubSeq(afterInt, Len(frac) + 2, Len(afterInt))
                     ELSE afterInt
        e1 == IF afterFrac # <<>> /\ Head(afterFrac) \in {"e", "E"}
              THEN Tail(afterFrac) ELSE <<>>
        e2 == IF signed(e1) THEN Tail(e1) ELSE e1
        exponent == leadingDigits(e2)
        mantissa == Q(digitsValue(int \o frac, 0), Pow10(Len(frac)))
        power == R(Pow10(digitsValue(exponent, 0)))
        magnitude == IF exponent = <<>> THEN mantissa
                     ELSE IF Head(e1) = "-" THEN RDiv(mantissa, power)
                     ELSE RMul(mantissa, power)
    IN  IF startsWith(u, <<"I", "n", "f", "i", "n", "i", "t", "y">>)
        THEN (IF negative THEN NegInfinity ELSE PosInfinity)
        ELSE IF int = <<>> /\ frac = <<>> THEN NaN
        ELSE IF negative THEN RNeg(magnitude) ELSE magnitude

(***************************************************************************)
(* parseNoaaCsv (utils/noaaParser, src/unnamed/part_004).  Arrays are      *)
(* 1-based here, and index 0 stands for the code's -1 and undefined.       *)
(***************************************************************************)
\* part_004:13
MinLines == 13

headerLinePrefix ==
    <<"b", "y", " ", "d", "u", "r", "a", "t", "i", "o", "n", " ", "f", "o",
      "r", " ", "A", "R", "I">>

\* Mutant of isHeaderLine: the prefix is looked for anywhere in the line.
isHeaderLine_anywhere(line) ==
    includes(toLowerCase(replaceSpaceRuns(trim(line), " ")),
             toLowerCase(headerLinePrefix))

isHeaderLine(line) ==
    startsWith(toLowerCase(replaceSpaceRuns(trim(line), " ")),
               toLowerCase(headerLinePrefix))

\* the first header line, 0 when there is none
findHeaderIndex(lines) ==
    LET at == {i \in 1..Len(lines) : isHeaderLine(lines[i])}
    IN  IF at = {} THEN 0 ELSE CHOOSE i \in at : \A j \in at : i <= j

cleanCell(cell) == stripQuotes(trim(cell))

cleanCells(line) ==
    LET cells == split(line, ",") IN [i \in 1..Len(cells) |-> cleanCell(cells[i])]

ariHeadersRaw(headerLine) == Tail(cleanCells(headerLine))

\* ariHeaderMap[ari] + 1: the last column labelled ari, 0 when undefined
ariHeaderMap(raw, ari) ==
    LET at == {i \in 1..Len(raw) : raw[i] # <<>> /\ raw[i] = ari}
    IN  IF at = {} THEN 0 ELSE CHOOSE i \in at : \A j \in at : j <= i

noAriHeaders(raw) == \A i \in 1..Len(raw) : raw[i] = <<>>

desiredReturnPeriods ==
    << <<"1">>,
       <<"2">>,
       <<"5">>,
       <<"1", "0">>,
       <<"2", "5">>,
       <<"5", "0">>,
       <<"1", "0", "0">>,
       <<"2", "0", "0">>,
       <<"5", "0", "0">>,
       <<"1", "0", "0", "0">> >>

desiredDurationLabels ==
    << <<"5", "-", "m", "i", "n">>,
       <<"1", "5", "-", "m", "i", "n">>,
       <<"6", "0", "-", "m", "i", "n">>,
       <<"2", "-", "h", "r">>,
       <<"3", "-", "h", "r">>,
       <<"6", "-", "h", "r">>,
       <<"1", "2", "-", "h", "r">>,
       <<"2", "4", "-", "h", "r">>,
       <<"2", "-", "d", "a", "y">>,
       <<"4", "-", "d", "a", "y">>,
       <<"7", "-", "d", "a", "y">>,
       <<"1", "0", "-", "d", "a", "y">> >>

skipsLine(line) == trim(line) = <<>> \/ ~includes(line, <<",">>)

cleanLabel(durationLabelRaw) == replaceSpaceRuns(stripColon(durationLabelRaw), "-")

\* desiredDurationLabels.find(...), <<>> when undefined
desiredDurationInfo(durationLabel) ==
    LET at == {i \in 1..Len(desiredDurationLabels) :
                  toLowerCase(desiredDurationLabels[i]) = toLowerCase(durationLabel)}
    IN  IF at = {} THEN <<>>
        ELSE desiredDurationLabels[CHOOSE i \in at : \A j \in at : i <= j]

NoDuration == [durationValue |-> 0, durationUnits |-> "undefined"]

\* part_004:89-108
durationOf(info) ==
    IF info = <<>> THEN NoDuration
    ELSE LET parts == split(info, "-")
             numPart == parseIntString(parts[1])
             unitPart == IF Len(parts) >= 2 THEN toLowerCase(parts[2]) ELSE <<>>
         IN  IF isNaN(numPart) \/ unitPart = <<>> THEN NoDuration
             ELSE IF unitPart = <<"m", "i", "n">>
                  THEN [durationValue |-> numPart[1], durationUnits |-> "minutes"]
             ELSE IF unitPart = <<"h", "r">>
                  THEN [durationValue |-> numPart[1], durationUnits |-> "hours"]
             ELSE IF unitPart = <<"d", "a", "y">>
                  THEN [durationValue |-> numPart[1] * 24, durationUnits |-> "hours"]
             ELSE NoDuration

\* part_004:75-135 for one line and one return period: the point pushed, if
\* any.
linePoint(line, raw, rpStr) ==
    IF skipsLine(line) THEN <<>>
    ELSE LET values == cleanCells(line)
             durationLabel == cleanLabel(values[1])
             duration == durationOf(desiredDurationInfo(durationLabel))
             headerIndex == ariHeaderMap(raw, rpStr)
         IN  IF Len(values) < 2 THEN <<>>
             ELSE IF headerIndex # 0 /\ Len(values) > headerIndex
             THEN LET depth == parseFloatString(values[headerIndex + 1])
                  IN  IF ~isNaN(depth) /\ duration # NoDuration
                      THEN << [durationLabel |-> durationLabel,
                               depth |-> depth,
                               durationValue |-> duration.durationValue,
                               durationUnits |-> duration.durationUnits] >>
                      ELSE <<>>
             ELSE <<>>

\* The points of one return period: the lines are gone through in order and
\* each pushes at most one point to a return period.
RECURSIVE dataPoints(_, _, _)
dataPoints(dataLines, raw, rpStr) ==
    IF dataLines = <<>> THEN <<>>
    ELSE linePoint(Head(dataLines), raw, rpStr)
            \o dataPoints(Tail(dataLines), raw, rpStr)

\* resultMap's values after the lines are processed (part_004:65-136), from
\* the i-th desired return period on.
RECURSIVE resultMap(_, _, _)
resultMap(dataLines, raw, i) ==
    IF i > Len(desiredReturnPeriods) THEN <<>>
    ELSE LET rpStr == desiredReturnPeriods[i]
             rpNum == parseIntString(rpStr)
         IN  (IF ~isNaN(rpNum) /\ ariHeaderMap(raw, rpStr) # 0
              THEN << [returnPeriod |-> rpNum[1],
                       dataPoints |-> dataPoints(dataLines, raw, rpStr)] >>
              ELSE <<>>)
                \o resultMap(dataLines, raw, i + 1)

hasDataPoints(rpData) == Len(rpData.dataPoints) > 0

\* Mutant of withDataPoints: nothing is filtered out.
withDataPoints_all(entries) == entries

\* part_004:139
withDataPoints(entries) == SelectSeq(entries, hasDataPoints)

\* Mutant of minutesOf: the value is taken for minutes whatever the units.
minutesOf_value(p) == p.durationValue

\* part_004:154-155
minutesOf(p) ==
    IF p.durationUnits = "minutes" THEN p.durationValue ELSE p.durationValue * 60

\* Array.prototype.sort is stable: p goes after the points that do not come
\* after it.
RECURSIVE insertPoint(_, _)
insertPoint(sorted, p) ==
    IF sorted = <<>> THEN <<p>>
    ELSE IF minutesOf(Head(sorted)) - minutesOf(p) <= 0
    THEN <<Head(sorted)>> \o insertPoint(Tail(sorted), p)
    ELSE <<p>> \o sorted

RECURSIVE sortDataPoints(_, _)
sortDataPoints(points, sorted) ==
    IF points = <<>> THEN sorted
    ELSE sortDataPoints(Tail(points), insertPoint(sorted, Head(points)))

RECURSIVE insertReturnPeriod(_, _)
insertReturnPeriod(sorted, rp) ==
    IF sorted = <<>> THEN <<rp>>
    ELSE IF Head(sorted).returnPeriod - rp.returnPeriod <= 0
    THEN <<Head(sorted)>> \o insertReturnPeriod(Tail(sorted), rp)
    ELSE <<rp>> \o sorted

RECURSIVE sortReturnPeriods(_, _)
sortReturnPeriods(entries, sorted) ==
    IF entries = <<>> THEN sorted
    ELSE sortReturnPeriods(Tail(entries), insertReturnPeriod(sorted, Head(entries)))

\* part_004:147-158
sortParsedData(parsedData) ==
    LET byReturnPeriod == sortReturnPeriods(parsedData, <<>>)
    IN  [i \in 1..Len(byReturnPeriod) |->
            [returnPeriod |-> byReturnPeriod[i].returnPeriod,
             dataPoints |-> sortDataPoints(byReturnPeriod[i].dataPoints, <<>>)]]

\* No operation of the function throws on a string, so the catch block
\* (part_004:164-167) is never entered.
parseNoaaCsv(text) ==
    LET lines == split(trim(text), "\n")
        headerIndex == findHeaderIndex(lines)
    IN  IF Len(lines) < MinLines THEN Null
        ELSE IF headerIndex = 0 THEN Null
        ELSE LET raw == ariHeadersRaw(lines[headerIndex])
                 dataLines == SubSeq(lines, headerIndex + 1, Len(lines))
                 parsedData == withDataPoints(resultMap(dataLines, raw, 1))
             IN  IF noAriHeaders(raw) THEN Null
                 ELSE IF parsedData = <<>> THEN Null
                 ELSE Grid(sortParsedData(parsedData))

(***************************************************************************)
(* Inputs of the parser: up to MaxDataLines lines below a header line (or  *)
(* below none), below a preamble of metadata lines.                        *)
(***************************************************************************)
MaxDataLines == 2

\* NOAA Atlas 14
MetadataLine ==
    <<"N", "O", "A", "A", " ", "A", "t", "l", "a", "s", " ", "1", "4">>

\* by duration for ARI (years):,10,25
PlainHeader ==
    <<"b", "y", " ", "d", "u", "r", "a", "t", "i", "o", "n", " ", "f", "o",
      "r", " ", "A", "R", "I", " ", "(", "y", "e", "a", "r", "s", ")", ":",
      ",", "1", "0", ",", "2", "5">>

\* By  Duration for ari (years):, 100 ,"10"
\* (other case, a run of spaces, a padded and a quoted label, labels in
\* descending order)
LooseHeader ==
    <<"B", "y", " ", " ", "D", "u", "r", "a", "t", "i", "o", "n", " ", "f",
      "o", "r", " ", "a", "r", "i", " ", "(", "y", "e", "a", "r", "s", ")",
      ":", ",", " ", "1", "0", "0", " ", ",", "\"", "1", "0", "\"">>

\* ARI (years):,10,25
\* (no prefix)
NoPrefixHeader ==
    <<"A", "R", "I", " ", "(", "y", "e", "a", "r", "s", ")", ":", ",", "1",
      "0", ",", "2", "5">>

\* PF by duration for ARI,10,25
\* (the prefix, but not at the start)
InnerPrefixHeader ==
    <<"P", "F", " ", "b", "y", " ", "d", "u", "r", "a", "t", "i", "o", "n",
      " ", "f", "o", "r", " ", "A", "R", "I", ",", "1", "0", ",", "2", "5">>

\* by duration for ARI (years):,3,10
\* (a return period that is none of the desired ones)
OddPeriodHeader ==
    <<"b", "y", " ", "d", "u", "r", "a", "t", "i", "o", "n", " ", "f", "o",
      "r", " ", "A", "R", "I", " ", "(", "y", "e", "a", "r", "s", ")", ":",
      ",", "3", ",", "1", "0">>

\* by duration for ARI
\* (no label)
BareHeader ==
    <<"b", "y", " ", "d", "u", "r", "a", "t", "i", "o", "n", " ", "f", "o",
      "r", " ", "A", "R", "I">>

\* 60-min:,1.5,2
SixtyMinLine ==
    <<"6", "0", "-", "m", "i", "n", ":", ",", "1", ".", "5", ",", "2">>

\* 24-hr:,3,x
\* (a cell that is no number)
DayLine ==
    <<"2", "4", "-", "h", "r", ":", ",", "3", ",", "x">>

\* 2-day:,4.25,5
TwoDayLine ==
    <<"2", "-", "d", "a", "y", ":", ",", "4", ".", "2", "5", ",", "5">>

\* 30-min:,1,1
\* (a duration that is none of the desired ones)
ThirtyMinLine ==
    <<"3", "0", "-", "m", "i", "n", ":", ",", "1", ",", "1">>

\* "6 HR:",,.5
\* (a quoted label in capitals with a space, an empty cell)
QuotedLine ==
    <<"\"", "6", " ", "H", "R", ":", "\"", ",", ",", ".", "5">>

\* 5-min:,7
\* (one cell short)
ShortLine ==
    <<"5", "-", "m", "i", "n", ":", ",", "7">>

\* pyRunTime: 0.01
\* (no comma)
TrailerLine ==
    <<"p", "y", "R", "u", "n", "T", "i", "m", "e", ":", " ", "0", ".", "0",
      "1">>

HeaderLines == {PlainHeader, LooseHeader, NoPrefixHeader, InnerPrefixHeader,
                OddPeriodHeader, BareHeader}

DataLines == {SixtyMinLine, DayLine, TwoDayLine, ThirtyMinLine, QuotedLine,
              ShortLine, TrailerLine}

\* With ten lines of preamble and the header line, one data line is short of
\* MinLines lines and two are not.
PreambleLengths == {0, 10, 11}

metadata(k) == [i \in 1..k |-> MetadataLine]

RECURSIVE joinLines(_)
joinLines(lines) ==
    IF lines = <<>> THEN <<>>
    ELSE IF Len(lines) = 1 THEN lines[1]
    ELSE lines[1] \o <<"\n">> \o joinLines(Tail(lines))

NoaaText(k, header, dataLines) == joinLines(metadata(k) \o header \o dataLines)

NoaaTexts ==
    {NoaaText(k, header, dataLines) :
        k \in PreambleLengths,
        header \in {<<>>} \cup {<<h>> : h \in HeaderLines},
        dataLines \in UNION {[1..n -> DataLines] : n \in 0..MaxDataLines}}

InitNoaa ==
    /\ pc = "noaa"
    /\ csvText \in NoaaTexts
    /\ noaaData = Null
    /\ EngineIdle
    /\ ProxyIdle
    /\ UiIdle

ParseNoaa ==
    /\ pc = "noaa"
    /\ noaaData' = parseNoaaCsv(csvText)
    /\ pc' = "noaaParsed"
    /\ UNCHANGED <<engineVars, csvText, proxyVars, uiVars>>

NextNoaa == ParseNoaa

SpecNoaa == InitNoaa /\ [][NextNoaa]_vars


(***************************************************************************)
(* The NOAA proxy handler (src/unnamed/part_000).  The handler validates   *)
(* the request, awaits the upstream request, and answers; the upstream's   *)
(* behaviour is what axios.get makes of it: a response of a 2xx status, or *)
(* an error (a timeout, a response of another status, no response, or      *)
(* none of these).                                                         *)
(***************************************************************************)
Response(statusCode, contentType, error, body) ==
    [statusCode |-> statusCode, contentType |-> contentType, error |-> error,
     body |-> body]

\* !value of a query parameter: undefined or the empty string
falsy(value) == value = Undefined \/ value = <<>>

\* part_000:40-42
invalidCoordinates(lat, lon) ==
    LET latitude == parseFloatString(lat)
        longitude == parseFloatString(lon)
    IN  \/ isNaN(latitude) \/ isNaN(longitude)
        \/ RLt(latitude, R(-90)) \/ RGt(latitude, R(90))
        \/ RLt(longitude, R(-180)) \/ RGt(longitude, R(180))

\* part_000:12-48: the response returned before the upstream is asked, or
\* NoResponse when the handler goes on to ask it.
earlyResponse(ev) ==
    IF ev.httpMethod = "OPTIONS" THEN Response(204, "", "", <<>>)
    ELSE IF ev.httpMethod # "GET"
    THEN Response(405, "", "Method Not Allowed", <<>>)
    ELSE IF falsy(ev.queryStringParameters.lat) \/ falsy(ev.queryStringParameters.lon)
    THEN Response(400, "", "Latitude and Longitude are required query parameters.", <<>>)
    ELSE IF invalidCoordinates(ev.queryStringParameters.lat, ev.queryStringParameters.lon)
    THEN Response(400, "", "Invalid Latitude or Longitude values.", <<>>)
    ELSE NoResponse

isString(data) == data # Undefined

\* response.data && typeof response.data === 'string'
truthyString(data) == isString(data) /\ data # <<>>

\* 'Error'
ErrorWord ==
    <<"E", "r", "r", "o", "r">>

\* 'An error occurred'
ErrorPhrase ==
    <<"A", "n", " ", "e", "r", "r", "o", "r", " ", "o", "c", "c", "u", "r",
      "r", "e", "d">>

\* 'no data available'
NoDataPhrase ==
    <<"n", "o", " ", "d", "a", "t", "a", " ", "a", "v", "a", "i", "l", "a",
      "b", "l", "e">>

\* part_000:62-90
onResponse(status, data) ==
    IF status = 200 /\ truthyString(data)
    THEN IF \/ includes(data, ErrorWord)
            \/ includes(data, ErrorPhrase)
            \/ trim(data) = <<>>
         THEN IF includes(toLowerCase(data), NoDataPhrase)
              THEN Response(404, "application/json",
                            "No NOAA data available for the selected location.", <<>>)
              ELSE Response(502, "application/json",
                            "Received an error response or empty data from NOAA server.", <<>>)
         ELSE Response(200, "text/csv", "", data)
    ELSE Response(IF status # 0 THEN status ELSE 500, "application/json",
                  "Unexpected response received from NOAA server.", <<>>)

\* part_000:91-112
onError(error) ==
    IF error.code = "ECONNABORTED"
    THEN Response(504, "application/json", "Request to NOAA server timed out.", <<>>)
    ELSE IF error.response # 0
    THEN Response(error.response, "application/json",
                  "NOAA server responded with status <status>.", <<>>)
    ELSE IF error.request
    THEN Response(503, "application/json",
                  "Could not connect to NOAA server. Please try again later.", <<>>)
    ELSE Response(500, "application/json", "Failed to fetch data from NOAA server.", <<>>)

\* part_000:54-112 once axios.get has settled
settle(settled) ==
    IF settled.resolved THEN onResponse(settled.status, settled.data)
    ELSE onError(settled.error)

(***************************************************************************)
(* Requests and upstream behaviours of the model                           *)
(***************************************************************************)
Methods == {"GET", "OPTIONS", "POST"}

\* "40"  "-90"  "91"  "abc"  ""  and no parameter
Latitudes ==
    {<<"4", "0">>, <<"-", "9", "0">>, <<"9", "1">>, <<"a", "b", "c">>, <<>>, Undefined}

\* "-100"  "180"  "181"  and no parameter
Longitudes ==
    {<<"-", "1", "0", "0">>, <<"1", "8", "0">>, <<"1", "8", "1">>, Undefined}

Events ==
    {[httpMethod |-> m, queryStringParameters |-> [lat |-> lat, lon |-> lon]] :
        m \in Methods, lat \in Latitudes, lon \in Longitudes}

\* "Error: No data available"
NoDataBody ==
    <<"E", "r", "r", "o", "r", ":", " ", "N", "o", " ", "d", "a", "t", "a",
      " ", "a", "v", "a", "i", "l", "a", "b", "l", "e">>

\* a table, nothing, white space, three messages, and a body that axios has
\* parsed into an object
Bodies ==
    {NoaaText(0, <<PlainHeader>>, <<SixtyMinLine>>), <<>>, <<" ", "\n">>,
     ErrorWord, ErrorPhrase, NoDataBody, Undefined}

\* axios.get resolves with a response of a 2xx status
Resolved == {[resolved |-> TRUE, status |-> s, data |-> d, error |-> NoError] :
                s \in {200, 204}, d \in Bodies}

\* axios.get rejects: the timeout has passed (ECONNABORTED), the upstream
\* has answered with another status, it has not answered, or the request
\* could not be set up
Rejected ==
    {[resolved |-> FALSE, status |-> 0, data |-> <<>>, error |-> e] :
        e \in {[code |-> "ECONNABORTED", response |-> 0, request |-> TRUE],
               [code |-> "ERR_NETWORK", response |-> 0, request |-> TRUE],
               [code |-> "", response |-> 0, request |-> FALSE]}
            \cup {[code |-> "ERR_BAD_RESPONSE", response |-> s, request |-> TRUE] :
                     s \in {403, 404, 500, 503}}}

Upstreams == Resolved \cup Rejected

InitProxy ==
    /\ pc = "request"
    /\ event \in Events
    /\ upstream = NoUpstream
    /\ response = NoResponse
    /\ EngineIdle
    /\ NoaaIdle
    /\ UiIdle

\* part_000:3-52: up to the await
Validate ==
    /\ pc = "request"
    /\ response' = earlyResponse(event)
    /\ pc' = IF response' = NoResponse THEN "fetching" ELSE "responded"
    /\ UNCHANGED <<engineVars, noaaVars, event, upstream, uiVars>>

\* part_000:54-112: from the await on
Forward ==
    /\ pc = "fetching"
    /\ upstream' \in Upstreams
    /\ response' = settle(upstream')
    /\ pc' = "responded"
    /\ UNCHANGED <<engineVars, noaaVars, event, uiVars>>

NextProxy == Validate \/ Forward

SpecProxy == InitProxy /\ [][NextProxy]_vars


(***************************************************************************)
(* The .dat export of a result (generateSwmmDatContent,                    *)
(* src/client/src/components/SummaryTable.tsx:72-103).  The export is the  *)
(* sequence of its 'H:MM  value' lines, a line being its time <<H, MM>>    *)
(* and the number its value reads as; the comment line that heads the file *)
(* (line 78) holds no time and no value.                                   *)
(***************************************************************************)
\* x.toFixed(digits), as the number it reads as: the nearest numeral of that
\* many decimal places, the larger in size of two that are as near.
toFixed(x, digits) ==
    IF x[1] < 0
    THEN RNeg(Q(Round(RMul(RNeg(x), R(Pow10(digits)))), Pow10(digits)))
    ELSE Q(Round(RMul(x, R(Pow10(digits)))), Pow10(digits))

\* SummaryTable.tsx:83-85 and 96-98
timeString(totalMinutes) ==
    LET hours == Floor(RDiv(totalMinutes, R(60)))
    IN  <<hours, Round(RSub(totalMinutes, R(60 * hours)))>>

\* The loop (SummaryTable.tsx:82-93) from step i on.
RECURSIVE datLines(_, _, _, _)
datLines(intensityData, timeStepMinutes, i, currentTotalMinutes) ==
    IF i > Len(intensityData) THEN <<>>
    ELSE <<[time |-> timeString(currentTotalMinutes),
            value |-> toFixed(intensityData[i], 4)]>>
            \o datLines(intensityData, timeStepMinutes, i + 1,
                        RAdd(currentTotalMinutes, timeStepMinutes))

generateSwmmDatContent(res, timeStepMinutes) ==
    LET totalDurationMinutes == RMul(R(Len(res.intensityData)), timeStepMinutes)
    IN  datLines(res.intensityData, timeStepMinutes, 1, R(0))
            \o <<[time |-> timeString(totalDurationMinutes), value |-> R(0)]>>

\* The reference texts the export is run on.
ExportTexts == {PeakedText, NearlyFullText}

InitExport ==
    /\ pc = "load"
    /\ \E t \in ExportTexts :
          csv = [k \in Categories |-> IF k = "SCS" THEN t ELSE EmptyText]
    /\ allDistributionsRaw = Idle
    /\ stormDistributions = Idle
    /\ inputs = NoInputs
    /\ result = createEmptyResult
    /\ InterpIdle
    /\ NoaaIdle
    /\ ProxyIdle
    /\ UiIdle

\* The export button is there when the result has steps
\* (SummaryTable.tsx:108); the time step is the one of the calculation.
ExportDat ==
    /\ pc = "calculated"
    /\ Len(result.detailedData) > 0
    /\ dat' = generateSwmmDatContent(result, inputs.timeStepMinutes)
    /\ pc' = "exported"
    /\ UNCHANGED <<engineVars, noaaVars, proxyVars, appInputs, noaaState, fetches, call>>

NextExport == ParseCsvs \/ Preprocess \/ Calculate \/ ExportDat

SpecExport == InitExport /\ [][NextExport]_vars

(***************************************************************************)
(* The App's inputs state (part_001:14-21, 39-139, 280-308) under the      *)
(* events of InputForm and of the NOAA table.  Typed text is a sequence    *)
(* of characters, a number a rational.  calculationResult, which           *)
(* applyNoaaDataToInputs sets through triggerCalculation, is the result    *)
(* that Spec computes and is not part of this state.                       *)
(***************************************************************************)
\* /^[1-9][0-9]*$/
isPositiveInteger(s) ==
    /\ Len(s) >= 1
    /\ isDigit(s[1]) /\ s[1] # "0"
    /\ \A i \in 2..Len(s) : isDigit(s[i])

\* /^[+]?([0-9]*[.])?[0-9]*$/
isPartialDecimal(s) ==
    LET u == IF Len(s) >= 1 /\ s[1] = "+" THEN Tail(s) ELSE s
    IN  /\ \A i \in 1..Len(u) : isDigit(u[i]) \/ u[i] = "."
        /\ Cardinality({i \in 1..Len(u) : u[i] = "."}) <= 1

\* Mutant of acceptsTimeStep: the rule of SCS for every category.
acceptsTimeStep_anyCategory(stormCategory, timeStepValue) ==
    timeStepValue = <<>> \/ isPositiveInteger(timeStepValue)

\* part_001:77-99: the time steps a category takes
acceptsTimeStep(stormCategory, timeStepValue) ==
    IF stormCategory = "SCS"
    THEN timeStepValue = <<>> \/ isPositiveInteger(timeStepValue)
    ELSE timeStepValue \in {<<"1">>, <<"6">>, <<>>}

DurationsAllowed == {R(6), R(12), R(24)}

\* part_001:39-129, the updater passed to setInputs
handleInputChange(prev, field, value) ==
    CASE field = "stormCategory" ->
            IF value = prev.stormCategory THEN prev
            ELSE IF value = "SCS"
            THEN [prev EXCEPT !.stormCategory = value, !.stormSubType = "Type II"]
            ELSE [prev EXCEPT
                    !.stormCategory = value,
                    !.duration = R(24),
                    !.stormSubType = IF value = "NRCS" THEN "Northeast Type A"
                                     ELSE "Huff Type I",
                    !.timeStep = IF prev.timeStep \in {<<"1">>, <<"6">>} THEN @
                                 ELSE <<"6">>]
      [] field = "totalDepth" -> [prev EXCEPT !.totalDepth = value]
      [] field = "timeStep" ->
            IF acceptsTimeStep(prev.stormCategory, value)
            THEN [prev EXCEPT !.timeStep = value]
            ELSE prev
      [] field = "duration" /\ prev.stormCategory = "SCS" ->
            IF value \in DurationsAllowed THEN [prev EXCEPT !.duration = value]
            ELSE prev
      [] OTHER -> [prev EXCEPT ![field] = value]

\* part_001:132-139
handleUnitChange(prev, unitType, value) ==
    IF unitType = "depth" THEN [prev EXCEPT !.depthUnits = value] ELSE prev

\* InputForm.tsx:17-22
handleNumericChange(inp, field, value) ==
    IF value = <<>> \/ isPartialDecimal(value)
    THEN handleInputChange(inp, field, value)
    ELSE inp

\* Mutant of handleDurationChange: the change is passed on under every
\* category.
handleDurationChange_anyCategory(inp, value) ==
    handleInputChange(inp, "duration", parseIntString(value))

\* InputForm.tsx:24-30
handleDurationChange(inp, value) ==
    LET durationValue == parseIntString(value)
    IN  IF inp.stormCategory = "SCS"
        THEN handleInputChange(inp, "duration", durationValue)
        ELSE inp

\* Number.prototype.toFixed, the text
RECURSIVE decimal(_)
decimal(n) ==
    IF n < 10 THEN <<Digits[n + 1]>>
    ELSE Append(decimal(n \div 10), Digits[(n % 10) + 1])

toFixedString(x, digits) ==
    LET n == Round(RMul(RAbs(x), R(Pow10(digits))))
        whole == decimal(n \div Pow10(digits))
        fraction == [i \in 1..digits |-> Digits[((n \div Pow10(digits - i)) % 10) + 1]]
        text == IF digits = 0 THEN whole ELSE whole \o <<".">> \o fraction
    IN  IF x[1] < 0 THEN <<"-">> \o text ELSE text

\* part_001:280-308, the state it passes to setInputs
applyNoaaDataToInputs(inp, depth, durationValue) ==
    IF durationValue \notin DurationsAllowed THEN inp
    ELSE [inp EXCEPT !.totalDepth = toFixedString(depth, 3),
                     !.duration = durationValue,
                     !.depthUnits = "us",
                     !.stormCategory = "SCS",
                     !.stormSubType = "Type II"]

\* What is typed into the depth and the time-step fields, the options of
\* the selects, and the cells of the NOAA table that can be selected
\* (NoaaDataTable.tsx:103).
TypedDepths == {<<"2">>, <<"2", ".">>, <<"x">>}

TypedTimeSteps ==
    {<<>>, <<"1">>, <<"6">>, <<"5">>, <<"1", "0">>, <<"0">>, <<"+", "6">>,
     <<"1", ".">>, <<"x">>}

stormSubTypesByCategory ==
    [c \in Categories |->
        CASE c = "SCS" -> {"Type I", "Type II"}
          [] c = "NRCS" -> {"Northeast Type A", "Northeast Type B"}
          [] OTHER -> {"Huff Type I", "Huff Type II"}]

DurationOptions == {<<"6">>, <<"1", "2">>, <<"2", "4">>}

DepthUnits == {"us", "metric"}

NoaaCells == {Q(5, 2), Q(1, 16)} \X DurationsAllowed

InitApp ==
    /\ pc = "app"
    /\ EngineIdle
    /\ NoaaIdle
    /\ ProxyIdle
    /\ UiIdle

NumericChange ==
    /\ pc = "app"
    /\ \E fv \in ({"totalDepth"} \X TypedDepths) \cup ({"timeStep"} \X TypedTimeSteps) :
          /\ appInputs' = handleNumericChange(appInputs, fv[1], fv[2])
          /\ call' = [op |-> "handleNumericChange", field |-> fv[1], value |-> fv[2]]
    /\ UNCHANGED <<pc, engineVars, noaaVars, proxyVars, dat, noaaState, fetches>>

CategoryChange ==
    /\ pc = "app"
    /\ \E value \in Categories :
          /\ appInputs' = handleInputChange(appInputs, "stormCategory", value)
          /\ call' = [op |-> "onInputChange", field |-> "stormCategory", value |-> value]
    /\ UNCHANGED <<pc, engineVars, noaaVars, proxyVars, dat, noaaState, fetches>>

SubTypeChange ==
    /\ pc = "app"
    /\ \E value \in stormSubTypesByCategory[appInputs.stormCategory] :
          /\ appInputs' = handleInputChange(appInputs, "stormSubType", value)
          /\ call' = [op |-> "onInputChange", field |-> "stormSubType", value |-> value]
    /\ UNCHANGED <<pc, engineVars, noaaVars, proxyVars, dat, noaaState, fetches>>

DurationChange ==
    /\ pc = "app"
    /\ \E value \in DurationOptions :
          /\ appInputs' = handleDurationChange(appInputs, value)
          /\ call' = [op |-> "handleDurationChange", field |-> "duration", value |-> value]
    /\ UNCHANGED <<pc, engineVars, noaaVars, proxyVars, dat, noaaState, fetches>>

UnitChange ==
    /\ pc = "app"
    /\ \E value \in DepthUnits :
          /\ appInputs' = handleUnitChange(appInputs, "depth", value)
          /\ call' = [op |-> "handleUnitChange", field |-> "depthUnits", value |-> value]
    /\ UNCHANGED <<pc, engineVars, noaaVars, proxyVars, dat, noaaState, fetches>>

ApplyNoaa ==
    /\ pc = "app"
    /\ \E cell \in NoaaCells :
          /\ appInputs' = applyNoaaDataToInputs(appInputs, cell[1], cell[2])
          /\ call' = [op |-> "applyNoaaDataToInputs", field |-> "", value |-> cell]
    /\ UNCHANGED <<pc, engineVars, noaaVars, proxyVars, dat, noaaState, fetches>>

NextApp ==
    \/ NumericChange
    \/ CategoryChange
    \/ SubTypeChange
    \/ DurationChange
    \/ UnitChange
    \/ ApplyNoaa

SpecApp == InitApp /\ [][NextApp]_vars

(***************************************************************************)
(* The App's NOAA state under clicks on the map (part_001:205-277).  Each  *)
(* click starts a call of fetchNoaaData, which sets the state, awaits the  *)
(* proxy and sets the state again when it returns; calls that have not     *)
(* returned return in any order.  The frequency data of a location is      *)
(* named by the location.                                                  *)
(***************************************************************************)
MaxClicks == 3

Locations == {<<R(40), R(-75)>>, <<Q(83, 2), Q(-297, 4)>>}

\* what parseNoaaCsv makes of the table NOAA holds for a location
DataOf(lat, lon) == [latitude |-> lat, longitude |-> lon]

\* the messages of the errors fetchNoaaData throws (part_001:224-250)
FetchErrors ==
    {"Received empty or invalid data from NOAA server.",
     "Could not parse data received from NOAA server."}

\* part_001:207-215
fetchStarted(prev, lat, lon) ==
    [prev EXCEPT !.latitude = <<lat>>,
                 !.longitude = <<lon>>,
                 !.isLoading = TRUE,
                 !.error = <<>>,
                 !.data = <<>>,
                 !.statusMessage = <<"Fetching data for ", toFixedString(lat, 4), ", ",
                                     toFixedString(lon, 4), "...">>]

\* part_001:253-258
fetchLoaded(prev, lat, lon, parsedData) ==
    [prev EXCEPT !.isLoading = FALSE,
                 !.data = <<parsedData>>,
                 !.statusMessage = <<"Data loaded for ", toFixedString(lat, 4), ", ",
                                     toFixedString(lon, 4), ". Select an event.">>]

\* part_001:260-268
fetchFailed(prev, message) ==
    [prev EXCEPT !.isLoading = FALSE,
                 !.error = <<message>>,
                 !.statusMessage = <<"Error fetching or processing data. Please try again.">>]

Pending == {f \in fetches : ~f.returned}

Returned(f) == (fetches \ {f}) \cup {[f EXCEPT !.returned = TRUE]}

InitFetch ==
    /\ pc = "map"
    /\ EngineIdle
    /\ NoaaIdle
    /\ ProxyIdle
    /\ UiIdle

\* handleMapClick: fetchNoaaData up to its await
MapClick ==
    /\ pc = "map"
    /\ Cardinality(fetches) < MaxClicks
    /\ \E at \in Locations :
          /\ noaaState' = fetchStarted(noaaState, at[1], at[2])
          /\ fetches' = fetches \cup {[id |-> Cardinality(fetches) + 1, lat |-> at[1],
                                        lon |-> at[2], returned |-> FALSE]}
    /\ UNCHANGED <<pc, engineVars, noaaVars, proxyVars, dat, appInputs, call>>

\* a call resumes with a table that parses
FetchLoads ==
    /\ pc = "map"
    /\ \E f \in Pending :
          /\ noaaState' = fetchLoaded(noaaState, f.lat, f.lon, DataOf(f.lat, f.lon))
          /\ fetches' = Returned(f)
    /\ UNCHANGED <<pc, engineVars, noaaVars, proxyVars, dat, appInputs, call>>

\* a call resumes in its catch block
FetchFails ==
    /\ pc = "map"
    /\ \E f \in Pending, message \in FetchErrors :
          /\ noaaState' = fetchFailed(noaaState, message)
          /\ fetches' = Returned(f)
    /\ UNCHANGED <<pc, engineVars, noaaVars, proxyVars, dat, appInputs, call>>

NextFetch == MapClick \/ FetchLoads \/ FetchFails

SpecFetch == InitFetch /\ [][NextFetch]_vars

(***************************************************************************)
(* Claims about linearInterpolate, under SpecInterp                        *)
(***************************************************************************)
Interpolated == pc = "interpolated"

Unique(xs, i) == \A j \in 1..Len(xs) : j # i => xs[j] # xs[i]

StrictlyInside == RLt(xPoints[1], xq) /\ RLt(xq, xPoints[Len(xPoints)])

\* The first index whose x is at least the probe (the probe strictly inside).
FirstAtLeast ==
    CHOOSE i \in 1..Len(xPoints) :
        RGe(xPoints[i], xq) /\ \A j \in 1..(i - 1) : RLt(xPoints[j], xq)

\* out = y0 + (y1 - y0) * (x - x0) / (x1 - x0), multiplied out by x1 - x0.
OnChord(i) ==
    RMul(RSub(yOut, yPoints[i - 1]), RSub(xPoints[i], xPoints[i - 1]))
        = RMul(RSub(yPoints[i], yPoints[i - 1]), RSub(xq, xPoints[i - 1]))

Within6(a, b) == RLt(RAbs(RSub(a, b)), Q(1, 1000000))

C6_ClampsBothEnds ==
    Interpolated =>
        /\ RLe(xq, xPoints[1]) => yOut = yPoints[1]
        /\ RGe(xq, xPoints[Len(xPoints)]) => yOut = yPoints[Len(xPoints)]

\* C6 amended: x <= xs[0] gives ys[0]; x >= xs[last] gives ys[last] when
\* x > xs[0] (the low clamp is tested first and wins when both apply).
C6_ClampsLowFirst ==
    Interpolated =>
        /\ RLe(xq, xPoints[1]) => yOut = yPoints[1]
        /\ (RGe(xq, xPoints[Len(xPoints)]) /\ RGt(xq, xPoints[1]))
              => yOut = yPoints[Len(xPoints)]

\* C6 witness: a probe beyond the last point of a table whose ends differ
\* got the last y.
C6_Witness ==
    /\ Interpolated
    /\ Len(xPoints) >= 2
    /\ RGt(xq, xPoints[Len(xPoints)])
    /\ yPoints[1] # yPoints[Len(xPoints)]
    /\ yOut = yPoints[Len(xPoints)]

\* C7 as stated: strictly inside the table the result is the chord value
\* through the bracketing points i-1, i (i the first index with xs[i] >= x),
\* and it is a finite number (no division by zero).
C7_AlwaysChord ==
    (Interpolated /\ StrictlyInside) =>
        isFinite(yOut) /\ OnChord(FirstAtLeast)

\* C7 amended: strictly inside the table the result is ys[i] when x is
\* within 1e-6 of xs[i], else ys[i-1] when x is within 1e-6 of xs[i-1],
\* else the chord value; it is always finite.
C7_ChordOrSnap ==
    (Interpolated /\ StrictlyInside) =>
        LET i == FirstAtLeast
        IN  /\ isFinite(yOut)
            /\ IF Within6(xq, xPoints[i]) THEN yOut = yPoints[i]
               ELSE IF Within6(xq, xPoints[i - 1]) THEN yOut = yPoints[i - 1]
               ELSE OnChord(i)

\* C7 witness: a probe strictly inside, away from both bracketing points,
\* got a value strictly between two different heights.
C7_Witness ==
    /\ Interpolated /\ StrictlyInside
    /\ LET i == FirstAtLeast
       IN  /\ ~Within6(xq, xPoints[i]) /\ ~Within6(xq, xPoints[i - 1])
           /\ yPoints[i - 1] # yPoints[i]
           /\ yOut # yPoints[i - 1] /\ yOut # yPoints[i]
           /\ OnChord(i)

(***************************************************************************)
(* Claims about the curve store and calculateHyetograph                    *)
(***************************************************************************)
Calculated == pc = "calculated"

StoreBuilt == pc \in {"ready", "calculated"}

RequestKey == <<inputs.stormCategory, inputs.stormSubType, inputs.durationInput>>

KeyInStore == RequestKey \in DOMAIN stormDistributions

Positive(a) == ~isNaN(a) /\ RGt(a, R(0))

ValidNumbers == Positive(inputs.totalDepthInput) /\ Positive(inputs.timeStepMinutes)

\* zero steps, zero peak, zero depth
IsSentinel ==
    /\ Len(result.detailedData) = 0
    /\ result.peakIntensity = R(0)
    /\ result.totalDepthActual = R(0)
    /\ Len(result.intensityData) = 0 /\ Len(result.labels) = 0

Steps == result.detailedData

DurationMinutes == R(inputs.durationInput * 60)

\* |a - b| <= b / 100
Within1Percent(a, b) == RLe(RAbs(RSub(a, b)), RDiv(b, R(100)))

RECURSIVE SumDepthStep(_)
SumDepthStep(n) == IF n = 0 THEN R(0) ELSE RAdd(SumDepthStep(n - 1), Steps[n].depthStep)

\* C1 as stated: a request with positive depth and time step whose key is
\* in the curve store gets steps whose depthStep sum (totalDepthActual) and
\* whose last cumulativeDepth are within 1% of the requested depth.
C1_DepthConserved ==
    (Calculated /\ ValidNumbers /\ KeyInStore) =>
        /\ Within1Percent(result.totalDepthActual, inputs.totalDepthInput)
        /\ result.totalDepthActual = SumDepthStep(Len(Steps))
        /\ Len(Steps) > 0
        /\ Within1Percent(Steps[Len(Steps)].cumulativeDepth, inputs.totalDepthInput)

\* C1 on the stored curves that have points: there the depth is conserved.
C1_DepthConservedOnPoints ==
    (Calculated /\ ValidNumbers /\ KeyInStore
       /\ Len(stormDistributions[RequestKey].time_minutes) > 0) =>
        /\ Within1Percent(result.totalDepthActual, inputs.totalDepthInput)
        /\ result.totalDepthActual = SumDepthStep(Len(Steps))
        /\ Len(Steps) > 0
        /\ Within1Percent(Steps[Len(Steps)].cumulativeDepth, inputs.totalDepthInput)

\* C2 as stated: every curve in the store has times and cumulativeFraction
\* of one length >= 2, starts at (0, 0), ends at (duration in minutes, 1.0)
\* and has both arrays non-decreasing.
C2_CurveShape ==
    StoreBuilt =>
        \A k \in DOMAIN stormDistributions :
            LET t == stormDistributions[k].time_minutes
                f == stormDistributions[k].cumulative_fraction
            IN  /\ Len(t) = Len(f) /\ Len(t) >= 2
                /\ t[1] = R(0) /\ f[1] = R(0)
                /\ t[Len(t)] = R(k[3] * 60) /\ f[Len(f)] = R(1)
                /\ NonDecreasing(t) /\ NonDecreasing(f)

\* C3: a request whose key is not in the curve store gets the sentinel
\* (zero steps, peak 0, depth 0).
C3_MissingKeySentinel ==
    (Calculated /\ ~KeyInStore) => IsSentinel

\* C3 witness: valid numbers, a store that holds the same sub-type under
\* another duration, the requested key missing, the sentinel returned.
C3_Witness ==
    /\ Calculated /\ ValidNumbers /\ ~KeyInStore
    /\ \E k \in DOMAIN stormDistributions :
          /\ k[1] = inputs.stormCategory /\ k[2] = inputs.stormSubType
          /\ Len(stormDistributions[k].time_minutes) >= 2
    /\ IsSentinel

\* C4: a depth or a time step that is <= 0 or not a number, or a duration
\* that is not one of the category's durations, gets the sentinel.
C4_InvalidInputSentinel ==
    (Calculated /\ (\/ ~Positive(inputs.totalDepthInput)
                    \/ ~Positive(inputs.timeStepMinutes)
                    \/ inputs.durationInput \notin durationsToParse(inputs.stormCategory)))
        => IsSentinel

\* C4 witness: a zero depth asked of a key whose curve has points, and the
\* sentinel returned.
C4_Witness ==
    /\ Calculated /\ KeyInStore
    /\ Len(stormDistributions[RequestKey].time_minutes) >= 2
    /\ inputs.totalDepthInput = R(0) /\ Positive(inputs.timeStepMinutes)
    /\ IsSentinel

\* C8 as stated: a result that is not the sentinel has
\* ceil(durationHours * 60 / timeStepMinutes) steps.
C8_StepCount ==
    (Calculated /\ ~IsSentinel) =>
        Len(Steps) = Ceil(RDiv(DurationMinutes, inputs.timeStepMinutes))

\* C9 as stated: in a result that is not the sentinel the first step starts
\* at 0, each step ends where the next starts, each has timeEnd > timeStart,
\* each but the last is timeStepMinutes long and the last ends at
\* durationHours * 60.
C9_Contiguous ==
    (Calculated /\ ~IsSentinel) =>
        /\ Len(Steps) > 0
        /\ Steps[1].timeStart = R(0)
        /\ \A i \in 1..(Len(Steps) - 1) :
              /\ Steps[i].timeEnd = Steps[i + 1].timeStart
              /\ RSub(Steps[i].timeEnd, Steps[i].timeStart) = inputs.timeStepMinutes
        /\ \A i \in 1..Len(Steps) : RGt(Steps[i].timeEnd, Steps[i].timeStart)
        /\ Steps[Len(Steps)].timeEnd = DurationMinutes

RECURSIVE MaxIntensity(_)
MaxIntensity(n) ==
    IF n = 1 THEN Steps[1].intensity ELSE RMax(MaxIntensity(n - 1), Steps[n].intensity)

\* C11 as stated: a request answered from a stored curve gets steps whose
\* intensity and depthStep are >= 0 and whose cumulativeDepth never
\* decreases from one step to the next.
C11_NonNegativeSteps ==
    (Calculated /\ KeyInStore) =>
        /\ \A i \in 1..Len(Steps) :
              RGe(Steps[i].intensity, R(0)) /\ RGe(Steps[i].depthStep, R(0))
        /\ \A i \in 1..(Len(Steps) - 1) :
              RLe(Steps[i].cumulativeDepth, Steps[i + 1].cumulativeDepth)

\* C13: in a result that is not the sentinel, peakIntensity is the largest
\* intensity of the emitted steps.
C13_PeakIsMax ==
    (Calculated /\ ~IsSentinel) =>
        /\ Len(Steps) > 0
        /\ result.peakIntensity = MaxIntensity(Len(Steps))

\* C13 witness: several steps, the largest intensity neither the first nor
\* the last, and the peak equal to it.
C13_Witness ==
    /\ Calculated /\ Len(Steps) >= 3
    /\ \E i \in 2..(Len(Steps) - 1) :
          /\ result.peakIntensity = Steps[i].intensity
          /\ RGt(Steps[i].intensity, Steps[1].intensity)
          /\ RGt(Steps[i].intensity, Steps[Len(Steps)].intensity)

\* The inch request of a round-trip depth, on a store it is asked of.
InchRun ==
    /\ Calculated /\ inputs.depthUnit = "us"
    /\ inputs.totalDepthInput \in RoundTripDepths
    /\ inputs.timeStepMinutes \in TimeSteps
    /\ CoarseFractions(stormDistributions)

\* The same request with the depth in millimetres, and its result.
MetricRun ==
    calculateHyetograph(stormDistributions,
        [inputs EXCEPT !.depthUnit = "metric",
                       !.totalDepthInput = toMillimetres(inputs.totalDepthInput)])

SameTimes(a, b) ==
    /\ Len(a) = Len(b)
    /\ \A i \in 1..Len(a) : a[i].timeStart = b[i].timeStart /\ a[i].timeEnd = b[i].timeEnd

Times254(inch, metric) == metric = RMul(inch, INCH_TO_MM)

\* |metric - 25.4 * inch| <= |25.4 * inch| * 4 * 2^-MantissaBits: two
\* roundings, of D * 25.4 and of the quotient by 25.4.
Near254(inch, metric) ==
    RLe(RAbs(RSub(metric, RMul(inch, INCH_TO_MM))),
        RMul(RAbs(RMul(inch, INCH_TO_MM)), Q(4, Pow2(MantissaBits))))

ExactlyScaled(inch, metric) ==
    /\ SameTimes(inch.detailedData, metric.detailedData)
    /\ \A i \in 1..Len(inch.detailedData) :
          /\ Times254(inch.detailedData[i].intensity, metric.detailedData[i].intensity)
          /\ Times254(inch.detailedData[i].depthStep, metric.detailedData[i].depthStep)
          /\ Times254(inch.detailedData[i].cumulativeDepth,
                      metric.detailedData[i].cumulativeDepth)
    /\ Times254(inch.peakIntensity, metric.peakIntensity)
    /\ Times254(inch.totalDepthActual, metric.totalDepthActual)

ScaledWithinRounding(inch, metric) ==
    /\ SameTimes(inch.detailedData, metric.detailedData)
    /\ \A i \in 1..Len(inch.detailedData) :
          /\ Near254(inch.detailedData[i].intensity, metric.detailedData[i].intensity)
          /\ Near254(inch.detailedData[i].depthStep, metric.detailedData[i].depthStep)
          /\ Near254(inch.detailedData[i].cumulativeDepth,
                     metric.detailedData[i].cumulativeDepth)
    /\ Near254(inch.peakIntensity, metric.peakIntensity)
    /\ Near254(inch.totalDepthActual, metric.totalDepthActual)

NoaaParsed == pc = "noaaParsed"

InputLines == split(csvText, "\n")

\* the words of a line: what its white space separates
RECURSIVE Words(_)
Words(s) ==
    LET t == trimLeft(s)
        ends == {i \in 1..Len(t) : t[i] \in Whitespace}
        n == IF ends = {} THEN Len(t)
             ELSE (CHOOSE i \in ends : \A j \in ends : i <= j) - 1
    IN  IF t = <<>> THEN <<>>
        ELSE <<SubSeq(t, 1, n)>> \o Words(SubSeq(t, n + 1, Len(t)))

\* The line starts with "by duration for ARI", whatever the case of its
\* letters and the white space before and between the words.
StartsWithPrefix(line) ==
    LET w == Words(line)
    IN  /\ Len(w) >= 4
        /\ toLowerCase(w[1]) = <<"b", "y">>
        /\ toLowerCase(w[2]) = <<"d", "u", "r", "a", "t", "i", "o", "n">>
        /\ toLowerCase(w[3]) = <<"f", "o", "r">>
        /\ startsWith(toLowerCase(w[4]), <<"a", "r", "i">>)

HeaderRows ==
    LET lines == InputLines IN {i \in 1..Len(lines) : StartsWithPrefix(lines[i])}

HasHeaderRow == HeaderRows # {}

HeaderRow == CHOOSE i \in HeaderRows : \A j \in HeaderRows : i <= j

LineCells(line) ==
    LET cells == split(line, ",") IN [c \in 1..Len(cells) |-> trim(cells[c])]

\* the rows below the header row, each the sequence of its cells
RowsBelowHeader ==
    LET lines == InputLines
        first == HeaderRow
    IN  [r \in 1..(Len(lines) - first) |-> LineCells(lines[first + r])]

IsInteger(s) == s # <<>> /\ \A i \in 1..Len(s) : isDigit(s[i])

UnitMinutes(unit) ==
    CASE unit = <<"m", "i", "n">> -> 1
      [] unit = <<"h", "r">> -> 60
      [] unit = <<"d", "a", "y">> -> 1440
      [] OTHER -> 0

\* N-unit: a whole number, a hyphen, and min, hr or day
IsDurationLabel(s) ==
    LET parts == split(s, "-")
    IN  Len(parts) = 2 /\ IsInteger(parts[1]) /\ UnitMinutes(parts[2]) > 0

LabelMinutes(label) ==
    LET parts == split(toLowerCase(label), "-")
    IN  digitsValue(parts[1], 0) * UnitMinutes(parts[2])

IsNumber(s) == ~isNaN(parseFloatString(s))

\* the cells the claims speak of: <<return period, duration label, depth>>
\* for a column of the header row with an integer label, a row below it
\* whose first cell is a duration label (before a colon), and a number in
\* that column of the row
YieldingCells ==
    IF ~HasHeaderRow THEN {}
    ELSE LET header == LineCells(InputLines[HeaderRow])
             rows == RowsBelowHeader
         IN  { <<digitsValue(header[rc[2]], 0), stripColon(rows[rc[1]][1]),
                 parseFloatString(rows[rc[1]][rc[2]])>> :
                 rc \in { at \in (1 .. Len(rows)) \X (2 .. Len(header)) :
                     /\ IsInteger(header[at[2]])
                     /\ IsDurationLabel(stripColon(rows[at[1]][1]))
                     /\ at[2] <= Len(rows[at[1]])
                     /\ IsNumber(rows[at[1]][at[2]]) } }

GridHas(cell) ==
    /\ ~noaaData.isNull
    /\ \E i \in 1..Len(noaaData.grid) :
          /\ noaaData.grid[i].returnPeriod = cell[1]
          /\ \E j \in 1..Len(noaaData.grid[i].dataPoints) :
                /\ noaaData.grid[i].dataPoints[j].durationLabel = cell[2]
                /\ noaaData.grid[i].dataPoints[j].depth = cell[3]

\* C14: the header row "by duration for ARI (years):,10,25" and the one data
\* row "60-min:,1.5,2" give a grid of exactly the return periods 10 and 25,
\* each with the one point 60-min of its own column's depth, with a preamble
\* of metadata lines or without.
C14_HeaderAndOneRow ==
    NoaaParsed /\ (\E k \in PreambleLengths :
                      csvText = NoaaText(k, <<PlainHeader>>, <<SixtyMinLine>>))
        => /\ ~noaaData.isNull
           /\ Len(noaaData.grid) = 2
           /\ noaaData.grid[1].returnPeriod = 10
           /\ noaaData.grid[2].returnPeriod = 25
           /\ \A i \in 1..2 :
                 /\ Len(noaaData.grid[i].dataPoints) = 1
                 /\ noaaData.grid[i].dataPoints[1].durationLabel
                       = <<"6", "0", "-", "m", "i", "n">>
           /\ noaaData.grid[1].dataPoints[1].depth = Q(3, 2)
           /\ noaaData.grid[2].dataPoints[1].depth = R(2)

\* C15: the result is null for every input none of whose lines starts with
\* the header prefix.
C15_NoHeaderNull == NoaaParsed /\ ~HasHeaderRow => noaaData = Null

\* C15's case: an input of enough lines, one of them with the prefix after
\* other text and none with it at the start, and lines of data.
C15_Witness ==
    /\ NoaaParsed
    /\ ~HasHeaderRow
    /\ LET lines == InputLines
       IN  /\ Len(lines) >= MinLines
           /\ \E i \in 1..(Len(lines) - 1) :
                 /\ includes(lines[i], headerLinePrefix)
                 /\ lines[i + 1] = SixtyMinLine
    /\ noaaData = Null

\* C16: every cell of a number under an integer return-period label, in a
\* row below the header whose first cell is a duration label N-unit, is a
\* point of the grid, whatever the other cells of the row hold.  Stated of
\* the inputs of at least MinLines lines, the ones the parser reads at all.
C16_EveryCellKept ==
    NoaaParsed /\ Len(InputLines) >= MinLines
        => \A cell \in YieldingCells : GridHas(cell)

\* C17: in a grid the return periods ascend strictly, and the points of each
\* ascend by their duration in minutes.
C17_Sorted ==
    NoaaParsed /\ ~noaaData.isNull =>
        /\ \A i \in 1..(Len(noaaData.grid) - 1) :
              noaaData.grid[i].returnPeriod < noaaData.grid[i + 1].returnPeriod
        /\ \A i \in 1..Len(noaaData.grid) :
              \A j \in 1..(Len(noaaData.grid[i].dataPoints) - 1) :
                 LabelMinutes(noaaData.grid[i].dataPoints[j].durationLabel)
                    <= LabelMinutes(noaaData.grid[i].dataPoints[j + 1].durationLabel)

\* C17's case: labels in descending order in the header, the row of two days
\* above the row of six hours, and both rows with a point in one column.
C17_Witness ==
    /\ NoaaParsed
    /\ \E k \in PreambleLengths :
          csvText = NoaaText(k, <<LooseHeader>>, <<TwoDayLine, QuotedLine>>)
    /\ ~noaaData.isNull
    /\ Len(noaaData.grid) = 2
    /\ Len(noaaData.grid[1].dataPoints) = 2
    /\ LabelMinutes(noaaData.grid[1].dataPoints[1].durationLabel) = 360
    /\ LabelMinutes(noaaData.grid[1].dataPoints[2].durationLabel) = 2880

\* some cell after the first, in a line below the header row, reads as a
\* number
SomeNumberBelowHeader ==
    /\ HasHeaderRow
    /\ LET rows == RowsBelowHeader
       IN  \E r \in 1..Len(rows) : \E c \in 2..Len(rows[r]) : IsNumber(rows[r][c])

\* C18: a grid has a return period, every return period of a grid has a
\* point, and the result is null when no cell below the header is a number.
C18_NoEmptyGrid ==
    NoaaParsed =>
        /\ ~noaaData.isNull =>
              /\ Len(noaaData.grid) > 0
              /\ \A i \in 1..Len(noaaData.grid) : Len(noaaData.grid[i].dataPoints) > 0
        /\ ~SomeNumberBelowHeader => noaaData = Null

\* C18's case: a header of two return periods and a row with a number for
\* the first only; the grid has the first only.
C18_Witness ==
    /\ NoaaParsed
    /\ \E k \in PreambleLengths : csvText = NoaaText(k, <<PlainHeader>>, <<DayLine>>)
    /\ ~noaaData.isNull
    /\ Len(noaaData.grid) = 1
    /\ noaaData.grid[1].returnPeriod = 10

\* C19: the result is null only when the input has no header row or none of
\* its cells yields a point.
C19_NullOnlyStructural ==
    NoaaParsed /\ noaaData = Null => ~HasHeaderRow \/ YieldingCells = {}

(***************************************************************************)
(* Claims about the proxy handler, under SpecProxy                         *)
(***************************************************************************)
Responded == pc = "responded"

CarriesError == response.error # ""

\* C20: a response that carries {error} has one of the statuses 400, 404,
\* 405, 502, 503 and 504.
C20_ErrorStatuses ==
    Responded /\ CarriesError => response.statusCode \in {400, 404, 405, 502, 503, 504}

\* C21: a response to a GET with status 200 has the upstream's body for its
\* body, and carries nothing else.
C21_BodyUnmodified ==
    Responded /\ event.httpMethod = "GET" /\ response.statusCode = 200
        => /\ ~CarriesError
           /\ upstream.resolved
           /\ response.body = upstream.data

(***************************************************************************)
(* Claims about the .dat export, under SpecExport                          *)
(***************************************************************************)
Exported == pc = "exported"

\* H:MM of a whole number of minutes
HoursMinutes(t) == <<Floor(t) \div 60, Floor(t) % 60>>

\* C22: the export has one line per step, in order, at the step's start time
\* and with its intensity to four places, and then one line of value 0 at
\* the end time of the last step.
C22_DatLines ==
    Exported =>
        /\ Len(dat) = Len(Steps) + 1
        /\ \A i \in 1..Len(Steps) :
              /\ dat[i].time = HoursMinutes(Steps[i].timeStart)
              /\ dat[i].value = toFixed(Steps[i].intensity, 4)
        /\ dat[Len(dat)].value = R(0)
        /\ dat[Len(dat)].time = HoursMinutes(Steps[Len(Steps)].timeEnd)

(***************************************************************************)
(* Further claims about calculateHyetograph, under Spec                    *)
(***************************************************************************)
StoredCurve == lookupDistribution(stormDistributions, RequestKey)[1]

\* the depth of the request in inches, and the factor of the output unit
DepthInInches == toInches(inputs.totalDepthInput, inputs.depthUnit = "metric")

OutputFactor == IF inputs.depthUnit = "metric" THEN INCH_TO_MM ELSE R(1)

\* C23: the cumulativeDepth of every emitted step is, before the conversion
\* to the output unit, the total depth times the fraction read by
\* linearInterpolate at the step's own end time off the curve stored for
\* the requested duration.
C23_DepthOffStoredCurve ==
    (Calculated /\ ~IsSentinel) =>
        \A i \in 1..Len(Steps) :
            Steps[i].cumulativeDepth =
                RMul(RMul(linearInterpolate(Steps[i].timeEnd, StoredCurve.time_minutes,
                                            StoredCurve.cumulative_fraction),
                          DepthInInches),
                     OutputFactor)

\* C23's case: a storm of six hours in two steps or more, a part of the
\* depth fallen at the end of the first.
C23_Witness ==
    /\ Calculated /\ ~IsSentinel
    /\ inputs.durationInput = 6
    /\ Len(Steps) >= 2
    /\ RGt(Steps[1].cumulativeDepth, R(0))
    /\ RLt(Steps[1].cumulativeDepth, Steps[Len(Steps)].cumulativeDepth)
    /\ C23_DepthOffStoredCurve

(***************************************************************************)
(* Claims about the row loop and the interval loop of the builder, under   *)
(* SpecBuild                                                               *)
(***************************************************************************)
Parsed == pc \in {"parsed", "ready"}

\* the column of times and the column of intensities of a key
TimeColumn(key) == columnIndex(csv[key[1]].header, <<"Minutes", key[3]>>)

IntensityColumn(key) ==
    CHOOSE i \in 1..Len(csv[key[1]].header) :
        /\ i # TimeColumn(key) /\ csv[key[1]].header[i] = <<key[2], key[3]>>
        /\ \A j \in 1..Len(csv[key[1]].header) :
              (j # TimeColumn(key) /\ csv[key[1]].header[j] = <<key[2], key[3]>>) => j <= i

\* The rows accepted from row i on, the last accepted time being prev: a
\* row is accepted when its time reads as a number not below prev.
RECURSIVE AcceptedRows(_, _, _, _)
AcceptedRows(lines, timeIndex, i, prev) ==
    IF i > Len(lines) THEN <<>>
    ELSE LET t == parseTime(Cell(lines[i], timeIndex))
         IN  IF isNaN(t) \/ RLt(t, prev) THEN AcceptedRows(lines, timeIndex, i + 1, prev)
             ELSE <<i>> \o AcceptedRows(lines, timeIndex, i + 1, t)

\* one sample for each accepted row
AcceptedSamples(key) ==
    LET lines == csv[key[1]].lines
        rows == AcceptedRows(lines, TimeColumn(key), 1, NegInfinity)
    IN  [k \in 1..Len(rows) |->
            [time |-> parseTime(Cell(lines[rows[k]], TimeColumn(key))),
             intensity |-> parseFloat(Cell(lines[rows[k]], IntensityColumn(key)))]]

SkippedRows(key) ==
    LET lines == csv[key[1]].lines
        rows == AcceptedRows(lines, TimeColumn(key), 1, NegInfinity)
    IN  (1..Len(lines)) \ {rows[k] : k \in 1..Len(rows)}

\* C24: for every category and every column, the raw curve is the one of
\* the accepted rows alone: a row whose time is unreadable or below the
\* time of the previously accepted row adds no sample, and the rows after
\* it are still read.
C24_RowsSkipped ==
    Parsed =>
        \A key \in DOMAIN allDistributionsRaw :
            allDistributionsRaw[key] = processRaw(AcceptedSamples(key), R(key[3] * 60))

\* the samples the builder has accepted for a key
BuilderSamples(key) ==
    rawSamples(csv[key[1]].lines, key[1], TimeColumn(key), IntensityColumn(key),
               1, NegInfinity)

\* an intensity, 0 for an empty cell or text that is no number
IntensityOrZero(x) == IF isNaN(x) THEN R(0) ELSE x

\* The sum of intensity * hours over the first j pairs of consecutive
\* accepted time points.
RECURSIVE PairDepth(_, _)
PairDepth(S, j) ==
    IF j = 0 THEN R(0)
    ELSE RAdd(PairDepth(S, j - 1),
              RMul(IntensityOrZero(S[j].intensity),
                   RDiv(RSub(S[j + 1].time, S[j].time), R(60))))

\* the number of pairs whose later time point is not after time t
PairsUpTo(S, t) == Cardinality({j \in 1..(Len(S) - 1) : RLe(S[j + 1].time, t)})

IntervalEnd(S, D, j) == IF j < Len(S) THEN S[j + 1].time ELSE D

Counted(S, D, j) == RGt(IntervalEnd(S, D, j), S[j].time)

\* The running depth after interval j: the intervals of positive length.
RECURSIVE RunningDepth(_, _, _)
RunningDepth(S, D, j) ==
    IF j = 0 THEN R(0)
    ELSE RAdd(RunningDepth(S, D, j - 1),
              IF Counted(S, D, j)
              THEN RMul(IntensityOrZero(S[j].intensity),
                        RDiv(RSub(IntervalEnd(S, D, j), S[j].time), R(60)))
              ELSE R(0))

\* the latest time point before interval j
LatestBefore(S, D, j) ==
    LET ends == {R(0)} \cup {IntervalEnd(S, D, i) : i \in {h \in 1..(j - 1) : Counted(S, D, h)}}
    IN  CHOOSE x \in ends : \A y \in ends : RLe(y, x)

\* interval j ends at a time point of the curve
SetsPoint(S, D, j) == Counted(S, D, j) /\ RGe(IntervalEnd(S, D, j), LatestBefore(S, D, j))

\* the running depth at time point t: after the last interval ending there
DepthAt(S, D, t) ==
    LET at == {j \in 1..Len(S) : SetsPoint(S, D, j) /\ IntervalEnd(S, D, j) = t}
    IN  IF at = {} THEN R(0)
        ELSE RunningDepth(S, D, CHOOSE j \in at : \A i \in at : i <= j)

Passed == pc = "passed"

PassInput == allDistributionsRaw[PassKey]

PassKept == stormDistributions[PassKey]

\* the fractions of the points of the list that have time t
FractionsAt(c, t) ==
    {c.cumulative_fraction[k] : k \in {h \in 1..Len(c.time_minutes) : c.time_minutes[h] = t}}

Regional == {"NRCS", "Huff"}

RegionalTimeSteps == {<<"1">>, <<"6">>, <<>>}

TimeStepTyped == call.op = "handleNumericChange" /\ call.field = "timeStep"

\* a time step outside '1', '6' and empty typed under NRCS or Huff leaves
\* the inputs as they are
OtherTimeStepRefused ==
    (/\ TimeStepTyped'
     /\ appInputs.stormCategory \in Regional
     /\ call'.value \notin RegionalTimeSteps) => (appInputs' = appInputs)

\* a switch to NRCS or Huff with a time step other than '1' and '6' sets
\* the time step to '6'
OtherTimeStepReset ==
    (/\ appInputs'.stormCategory # appInputs.stormCategory
     /\ appInputs'.stormCategory \in Regional
     /\ appInputs.timeStep \notin {<<"1">>, <<"6">>}) => (appInputs'.timeStep = <<"6">>)

\* C27: under NRCS and Huff the time step held is '1', '6' or empty; a
\* time-step change to another value under these categories leaves the
\* inputs as they are; a switch to NRCS or Huff with a time step other
\* than '1' and '6' sets it to '6'.
C27_TimeStepRule ==
    /\ [](appInputs.stormCategory \in Regional => appInputs.timeStep \in RegionalTimeSteps)
    /\ [][OtherTimeStepRefused /\ OtherTimeStepReset]_vars

\* C27's case: a time step of '5' typed under Huff, the time step held
\* still '1'.
C27_Witness ==
    /\ TimeStepTyped
    /\ call.value = <<"5">>
    /\ appInputs.stormCategory = "Huff"
    /\ appInputs.timeStep = <<"1">>

\* a duration chosen that is not 6, 12 or 24, or not 24 under NRCS or Huff,
\* leaves the inputs as they are
BreakingDurationRefused ==
    (/\ call'.op = "handleDurationChange"
     /\ \/ parseIntString(call'.value) \notin DurationsAllowed
        \/ /\ appInputs.stormCategory \in Regional
           /\ parseIntString(call'.value) # R(24)) => (appInputs' = appInputs)

HoldsData == noaaState.data # <<>>

HoldsError == noaaState.error # <<>>

\* C29: once every call of fetchNoaaData has returned, the data held, if
\* any, are the data of the location held, the one of the latest click.
C29_DataOfLatestClick ==
    (Pending = {} /\ HoldsData) =>
        noaaState.data = <<DataOf(noaaState.latitude[1], noaaState.longitude[1])>>

\* C30: data and error are never both held.
C30_DataOrError == ~(HoldsData /\ HoldsError)

====
